---- MODULE Spec2Model ----
(***************************************************************************)
(* A model of cmodfix (src/src/tools/cmod/cmodfix/cmodfix.cpp): the vertex *)
(* description order and augmentation, vertex deduplication, face          *)
(* extraction, normal/tangent generation and mesh merging.                 *)
(*                                                                         *)
(* A vertex description is [stride, attributes], attributes a sequence of  *)
(* [semantic, format, offset]; nAttributes is Len(attributes).  C++ arrays *)
(* are 0-based, sequences here are 1-based; indices stored in primitive    *)
(* groups keep their 0-based C++ values.                                   *)
(***************************************************************************)
EXTENDS Integers, Sequences, FiniteSets, TLC

VARIABLES
    pc,         \* where the scenario of the specification stands
    descA,      \* a vertex description (left operand; the one augmented)
    descB,      \* a vertex description (right operand)
    oldDesc,    \* descA as it was before augmentVertexDescription
    augArg,     \* <<semantic, format>> passed to augmentVertexDescription
    cmp,        \* outcome of the last comparison of descA and descB
    mesh,       \* the mesh a transformation works on
    oldMesh,    \* the mesh as it was before the last transformation of it
    ret,        \* what the last transformation returned
    calls,      \* number of transformations applied so far
    inMesh,     \* the mesh as it was given
    model,      \* main's `model`
    oldModel,   \* the model as it was before the last transformation of it
    newModel,   \* the model the generation loop of main builds
    opts,       \* the options parseCommandLine has set, and the build's
    faceArray,  \* `faces` of the last generateNormals/generateTangents call
    meshI       \* main's `i`: the mesh index of its current loop (1-based)

descVars == <<descA, descB, oldDesc, augArg, cmp>>
meshVars == <<mesh, oldMesh, ret, calls, inMesh>>
modelVars == <<model, oldModel, newModel, opts, faceArray, meshI>>
vars == <<pc, descA, descB, oldDesc, augArg, cmp, mesh, oldMesh, ret, calls, inMesh,
          model, oldModel, newModel, opts, faceArray, meshI>>

(***************************************************************************)
(* Mesh::VertexAttributeSemantic and Mesh::VertexAttributeFormat           *)
(* (celmodel/mesh.h; the enumerators the tool uses).                       *)
(***************************************************************************)
Position == 0
Color0 == 1
Normal == 3
Tangent == 4
Texture0 == 5
InvalidSemantic == -1

Float1 == 0
Float2 == 1
Float3 == 2
Float4 == 3
UByte4 == 4
InvalidFormat == -1

getVertexAttributeSize(format) ==
    CASE format = Float1 -> 4
      [] format = Float2 -> 8
      [] format = Float3 -> 12
      [] format = Float4 -> 16
      [] format = UByte4 -> 4
      [] OTHER -> 0

VertexAttribute(semantic, format, offset) ==
    [semantic |-> semantic, format |-> format, offset |-> offset]

VertexDescription(stride, attributes) ==
    [stride |-> stride, attributes |-> attributes]

nAttributes(desc) == Len(desc.attributes)

\* Mesh::VertexDescription::getAttribute: the attribute with the semantic,
\* or an attribute of InvalidFormat when there is none.
getAttribute(desc, semantic) ==
    IF \E i \in 1..nAttributes(desc) : desc.attributes[i].semantic = semantic
    THEN desc.attributes[CHOOSE i \in 1..nAttributes(desc) :
                            /\ desc.attributes[i].semantic = semantic
                            /\ \A j \in 1..(i - 1) :
                                  desc.attributes[j].semantic # semantic]
    ELSE VertexAttribute(InvalidSemantic, InvalidFormat, 0)

(***************************************************************************)
(* operator== and operator< on attributes and on descriptions.             *)
(***************************************************************************)
AttributeEq(a, b) ==
    /\ a.semantic = b.semantic
    /\ a.format = b.format
    /\ a.offset = b.offset

AttributeLess(a, b) ==
    IF a.semantic < b.semantic THEN TRUE
    ELSE IF b.semantic < a.semantic THEN FALSE
    ELSE IF a.format < b.format THEN TRUE
    ELSE IF b.format < a.format THEN FALSE
    ELSE a.offset < b.offset

DescriptionEq(a, b) ==
    IF a.stride # b.stride \/ nAttributes(a) # nAttributes(b)
    THEN FALSE
    ELSE \A i \in 1..nAttributes(a) : AttributeEq(a.attributes[i], b.attributes[i])

\* The loop of operator< runs i over a's attributes and reads b.attributes[i]
\* whatever b's attribute count is.  A read past the end of b's array is
\* undefined behaviour: the attribute it yields is `garbage`.
ReadAttribute(desc, i, garbage) ==
    IF i <= nAttributes(desc) THEN desc.attributes[i] ELSE garbage

RECURSIVE DescriptionLessLoop(_, _, _, _)
DescriptionLessLoop(a, b, i, garbage) ==
    IF i > nAttributes(a) THEN FALSE
    ELSE IF AttributeLess(a.attributes[i], ReadAttribute(b, i, garbage)) THEN TRUE
    ELSE IF AttributeLess(ReadAttribute(b, i, garbage), a.attributes[i]) THEN FALSE
    ELSE DescriptionLessLoop(a, b, i + 1, garbage)

DescriptionLess(a, b, garbage) ==
    IF a.stride < b.stride THEN TRUE
    ELSE IF b.stride < a.stride THEN FALSE
    ELSE IF nAttributes(a) < nAttributes(b) THEN TRUE
    ELSE IF nAttributes(b) < nAttributes(b) THEN FALSE  \* line 378, as written
    ELSE DescriptionLessLoop(a, b, 1, garbage)

\* Whether evaluating a < b reads b.attributes at or beyond b's count.
RECURSIVE LessLoopReadsBeyond(_, _, _, _)
LessLoopReadsBeyond(a, b, i, garbage) ==
    IF i > nAttributes(a) THEN FALSE
    ELSE IF i > nAttributes(b) THEN TRUE
    ELSE IF AttributeLess(a.attributes[i], b.attributes[i]) THEN FALSE
    ELSE IF AttributeLess(b.attributes[i], a.attributes[i]) THEN FALSE
    ELSE LessLoopReadsBeyond(a, b, i + 1, garbage)

DescriptionLessReadsBeyond(a, b, garbage) ==
    IF a.stride < b.stride THEN FALSE
    ELSE IF b.stride < a.stride THEN FALSE
    ELSE IF nAttributes(a) < nAttributes(b) THEN FALSE
    ELSE IF nAttributes(b) < nAttributes(b) THEN FALSE
    ELSE LessLoopReadsBeyond(a, b, 1, garbage)

(***************************************************************************)
(* augmentVertexDescription.                                               *)
(***************************************************************************)
RECURSIVE AugmentLoop(_, _, _, _, _, _, _)
AugmentLoop(desc, semantic, format, i, attributes, stride, foundMatch) ==
    IF i > nAttributes(desc)
    THEN [attributes |-> attributes, stride |-> stride, foundMatch |-> foundMatch]
    ELSE IF semantic = desc.attributes[i].semantic /\ format # desc.attributes[i].format
    THEN AugmentLoop(desc, semantic, format, i + 1, attributes, stride, foundMatch)
    ELSE AugmentLoop(desc, semantic, format, i + 1,
                     Append(attributes,
                            VertexAttribute(desc.attributes[i].semantic,
                                            desc.attributes[i].format,
                                            stride)),
                     stride + getVertexAttributeSize(desc.attributes[i].format),
                     foundMatch \/ semantic = desc.attributes[i].semantic)

\* Mutants of augmentVertexDescription: one that appends the requested
\* attribute whether or not a match was found, one that leaves the kept
\* attributes at their old offsets.
augmentAlwaysAppends(desc, semantic, format) ==
    LET r == AugmentLoop(desc, semantic, format, 1, <<>>, 0, FALSE)
    IN  VertexDescription(r.stride + getVertexAttributeSize(format),
                          Append(r.attributes,
                                 VertexAttribute(semantic, format, r.stride)))

augmentKeepsOldOffsets(desc, semantic, format) ==
    LET r == AugmentLoop(desc, semantic, format, 1, <<>>, 0, FALSE)
        kept == SelectSeq(desc.attributes,
                          LAMBDA x : ~(x.semantic = semantic /\ x.format # format))
    IN  IF ~r.foundMatch
        THEN VertexDescription(r.stride + getVertexAttributeSize(format),
                               Append(kept, VertexAttribute(semantic, format, r.stride)))
        ELSE VertexDescription(r.stride, kept)

augmentVertexDescription(desc, semantic, format) ==
    LET r == AugmentLoop(desc, semantic, format, 1, <<>>, 0, FALSE)
    IN  IF ~r.foundMatch
        THEN VertexDescription(r.stride + getVertexAttributeSize(format),
                               Append(r.attributes,
                                      VertexAttribute(semantic, format, r.stride)))
        ELSE VertexDescription(r.stride, r.attributes)

(***************************************************************************)
(* std::sort.  `lt` is the comparator tabulated over the positions of the  *)
(* array, lt[<<i, j>>] = comp(array[i], array[j]); an outcome is the       *)
(* sequence of old positions in their new order.  With a strict weak       *)
(* ordering std::sort may return any sorted order (it is not stable).      *)
(* With a comparator that is no strict weak ordering the call is undefined *)
(* behaviour; the outcome modelled is the one of libstdc++, whose          *)
(* std::sort is a plain insertion sort up to 16 elements.                  *)
(***************************************************************************)
\* A comparator is worked out once into a table over the positions 1..n,
\* table[i][j] = comp(i, j); this is the table as the function over pairs
\* the definitions below take.
Tabulated(n, table) == [ij \in (1..n) \X (1..n) |-> table[ij[1]][ij[2]]]

IsStrictWeakOrdering(n, lt) ==
    /\ \A i \in 1..n : ~lt[<<i, i>>]
    /\ \A i, j, k \in 1..n : lt[<<i, j>>] /\ lt[<<j, k>>] => lt[<<i, k>>]
    /\ \A i, j, k \in 1..n :
          (~lt[<<i, j>>] /\ ~lt[<<j, i>>] /\ ~lt[<<j, k>>] /\ ~lt[<<k, j>>])
              => (~lt[<<i, k>>] /\ ~lt[<<k, i>>])

\* The sorted orders of a strict weak ordering: each begins with an element
\* that no remaining element is less than.
RECURSIVE SortedOrders(_, _)
SortedOrders(remaining, lt) ==
    IF remaining = {} THEN { <<>> }
    ELSE UNION { { <<m>> \o rest : rest \in SortedOrders(remaining \ {m}, lt) } :
                 m \in { x \in remaining : \A y \in remaining : ~lt[<<y, x>>] } }

\* __unguarded_linear_insert: the place where `val` stops walking left.
RECURSIVE LinearInsertStop(_, _, _, _)
LinearInsertStop(order, val, next, lt) ==
    IF lt[<<val, order[next]>>]
    THEN LinearInsertStop(order, val, next - 1, lt)
    ELSE next + 1

\* __insertion_sort.
RECURSIVE InsertionSortFrom(_, _, _, _)
InsertionSortFrom(order, i, n, lt) ==
    IF i > n THEN order
    ELSE LET val == order[i]
             at == IF lt[<<val, order[1]>>] THEN 1
                   ELSE LinearInsertStop(order, val, i - 1, lt)
             moved == [k \in 1..n |->
                          IF k < at THEN order[k]
                          ELSE IF k = at THEN val
                          ELSE IF k <= i THEN order[k - 1]
                          ELSE order[k]]
         IN  InsertionSortFrom(moved, i + 1, n, lt)

InsertionSort(n, lt) == InsertionSortFrom([k \in 1..n |-> k], 2, n, lt)

SortOutcomes(n, lt) ==
    IF IsStrictWeakOrdering(n, lt)
    THEN SortedOrders(1..n, lt)
    ELSE { InsertionSort(n, lt) }

(***************************************************************************)
(* Meshes.  A mesh is [desc, nVertices, vertexData, groups]: vertexData is *)
(* the sequence of vertex records, each a sequence of desc.stride bytes    *)
(* (0..255); a group is [prim, materialIndex, indices], the indices being  *)
(* 0-based positions in vertexData.                                        *)
(***************************************************************************)
TriList == 0
TriStrip == 1
TriFan == 2
LineList == 3

PrimitiveGroup(prim, materialIndex, indices) ==
    [prim |-> prim, materialIndex |-> materialIndex, indices |-> indices]

Mesh(desc, vertexData, groups) ==
    [desc |-> desc, nVertices |-> Len(vertexData),
     vertexData |-> vertexData, groups |-> groups]

\* The values that stand for "no description" and "no mesh" (nullptr).
NoDescription == VertexDescription(0, <<>>)
NoMesh == Mesh(NoDescription, <<>>, <<>>)

\* Mesh::setVertices: the vertex buffer and count are replaced.
setVertices(m, vertexCount, vertexData) ==
    [m EXCEPT !.nVertices = vertexCount, !.vertexData = vertexData]

\* Mesh::remapIndices: every index of every group is sent through the map.
remapIndices(m, vertexMap) ==
    [m EXCEPT !.groups =
        [g \in 1..Len(m.groups) |->
            [m.groups[g] EXCEPT !.indices =
                [k \in 1..Len(m.groups[g].indices) |->
                    vertexMap[m.groups[g].indices[k]]]]]]

\* Mesh::addGroup.
addGroup(m, prim, materialIndex, indices) ==
    [m EXCEPT !.groups = Append(m.groups, PrimitiveGroup(prim, materialIndex, indices))]

\* The record of vertex `index` (0-based) in a vertex buffer.
RecordAt(vertexData, index) == vertexData[index + 1]

(***************************************************************************)
(* FullComparator, equal and uniquifyVertices.                             *)
(***************************************************************************)
\* The value of a byte read through a `const char*` (char is signed on the
\* platforms the tool is built for).
SignedChar(byte) == IF byte >= 128 THEN byte - 256 ELSE byte

Vertex(index, attributes) == [index |-> index, attributes |-> attributes]

RECURSIVE FullComparatorFrom(_, _, _, _)
FullComparatorFrom(s0, s1, i, vertexSize) ==
    IF i > vertexSize THEN FALSE
    ELSE IF SignedChar(s0[i]) < SignedChar(s1[i]) THEN TRUE
    ELSE IF SignedChar(s0[i]) > SignedChar(s1[i]) THEN FALSE
    ELSE FullComparatorFrom(s0, s1, i + 1, vertexSize)

\* A mutant: only the first byte of the records is compared.
FullComparatorFirstByte(vertexSize, a, b) ==
    vertexSize >= 1 /\ SignedChar(a.attributes[1]) < SignedChar(b.attributes[1])

FullComparator(vertexSize, a, b) ==
    FullComparatorFrom(a.attributes, b.attributes, 1, vertexSize)

\* A mutant: only the first byte of the records is compared.
equalFirstByte(a, b, vertexSize) ==
    vertexSize >= 1 => a.attributes[1] = b.attributes[1]

\* A mutant: the last byte of the records is not compared.
equalButLastByte(a, b, vertexSize) ==
    \A i \in 1..(vertexSize - 1) : a.attributes[i] = b.attributes[i]

equal(a, b, vertexSize) ==
    \A i \in 1..vertexSize : a.attributes[i] = b.attributes[i]

\* The loop of lines 450-462 over the sorted array: the vertex map
\* (old index -> new index) and the compacted vertex data.
RECURSIVE UniquifyLoop(_, _, _, _, _, _)
UniquifyLoop(vertices, oldVertexData, stride, i, j, acc) ==
    IF i > Len(vertices) THEN acc
    ELSE LET fresh == i = 1 \/ ~equal(vertices[i - 1], vertices[i], stride)
             jj == IF fresh /\ i # 1 THEN j + 1 ELSE j
         IN  UniquifyLoop(vertices, oldVertexData, stride, i + 1, jj,
                 [vertexMap |-> [acc.vertexMap EXCEPT ![vertices[i].index] = jj],
                  newVertexData |->
                      IF fresh
                      THEN Append(acc.newVertexData,
                                  RecordAt(oldVertexData, vertices[i].index))
                      ELSE acc.newVertexData])

\* uniquifyVertices once the vertex array is sorted (lines 433-469).
UniquifyResult(m, vertices) ==
    LET stride == m.desc.stride
        uniqueVertexCount ==
            Cardinality({ i \in 1..Len(vertices) :
                            i = 1 \/ ~equal(vertices[i - 1], vertices[i], stride) })
        r == UniquifyLoop(vertices, m.vertexData, stride, 1, 0,
                          [vertexMap |-> [v \in 0..(m.nVertices - 1) |-> 0],
                           newVertexData |-> <<>>])
    IN  IF uniqueVertexCount = m.nVertices
        THEN [mesh |-> m, ret |-> TRUE]
        ELSE [mesh |-> remapIndices(setVertices(m, uniqueVertexCount, r.newVertexData),
                                    r.vertexMap),
              ret |-> TRUE]

\* uniquifyVertices: the outcomes, one per order std::sort may leave.
uniquifyVertices(m) ==
    IF m.nVertices = 0
    THEN { [mesh |-> m, ret |-> FALSE] }
    ELSE LET vertices == [i \in 1..m.nVertices |-> Vertex(i - 1, m.vertexData[i])]
             comp ==
                 SubSeq([a \in 1..m.nVertices |->
                            SubSeq([b \in 1..m.nVertices |->
                                       FullComparator(m.desc.stride,
                                                      vertices[a], vertices[b])],
                                   1, m.nVertices)],
                        1, m.nVertices)
             lt == Tabulated(m.nVertices, comp)
         IN  { UniquifyResult(m, [i \in 1..m.nVertices |-> vertices[order[i]]]) :
                 order \in SortOutcomes(m.nVertices, lt) }

(***************************************************************************)
(* Floats and vectors.  The vertex data of the inputs holds the floats of  *)
(* FloatTable; a float is modelled by its value, an integer.  All the      *)
(* arithmetic done on them (differences, products, sums of a few such      *)
(* numbers) is exact in single precision.  The byte order is little        *)
(* endian.                                                                 *)
(***************************************************************************)
FloatTable ==
    { << <<0, 0, 0, 0>>, 0 >>,
      << <<0, 0, 0, 128>>, 0 >>,       \* -0.0f compares equal to 0.0f
      << <<0, 0, 128, 63>>, 1 >>,
      << <<0, 0, 128, 191>>, -1 >>,
      << <<0, 0, 0, 64>>, 2 >>,
      << <<0, 0, 0, 192>>, -2 >> }

FloatOfBytes(bytes) == (CHOOSE e \in FloatTable : e[1] = bytes)[2]

BytesOfFloat(value) ==
    (CHOOSE e \in FloatTable : e[2] = value /\ e[1] # <<0, 0, 0, 128>>)[1]

\* The byte at address `addr` (0-based) of a vertex buffer.
ByteAt(vertexData, stride, addr) ==
    vertexData[(addr \div stride) + 1][(addr % stride) + 1]

\* The float stored at address `addr` of a vertex buffer.
ReadFloat(vertexData, stride, addr) ==
    FloatOfBytes([k \in 1..4 |-> ByteAt(vertexData, stride, addr + k - 1)])

getVertex(vertexData, positionOffset, stride, index) ==
    [k \in 1..3 |-> ReadFloat(vertexData, stride,
                              stride * index + positionOffset + 4 * (k - 1))]

getTexCoord(vertexData, texCoordOffset, stride, index) ==
    [k \in 1..2 |-> ReadFloat(vertexData, stride,
                              stride * index + texCoordOffset + 4 * (k - 1))]

ZeroVector == <<0, 0, 0>>
VecAdd(a, b) == [k \in 1..3 |-> a[k] + b[k]]
VecSub(a, b) == [k \in 1..3 |-> a[k] - b[k]]
VecScale(c, a) == [k \in 1..3 |-> c * a[k]]
Dot(a, b) == a[1] * b[1] + a[2] * b[2] + a[3] * b[3]
Cross(a, b) ==
    << a[2] * b[3] - a[3] * b[2],
       a[3] * b[1] - a[1] * b[3],
       a[1] * b[2] - a[2] * b[1] >>
squaredNorm(a) == Dot(a, a)

\* Vector3f::normalize on a vector along one axis: the unit vector of that
\* axis.  (The inputs are chosen so that only such vectors and the zero
\* vector are normalised; any other vector has no value here.)
Sign(x) == IF x > 0 THEN 1 ELSE IF x < 0 THEN -1 ELSE 0
normalize(a) ==
    CHOOSE u \in { <<Sign(a[1]), Sign(a[2]), Sign(a[3])>> } :
        Cardinality({ k \in 1..3 : a[k] # 0 }) = 1

(***************************************************************************)
(* Face extraction (generateNormals lines 670-767, generateTangents lines  *)
(* 996-1035).  A face is [i, vi, normal]: i the three attribute indices,   *)
(* vi the three point indices, normal the face vector.                     *)
(***************************************************************************)
Face(i, vi, normal) == [i |-> i, vi |-> vi, normal |-> normal]

\* group->indices[k], k 0-based.
IndexAt(group, k) == group.indices[k + 1]
nIndices(group) == Len(group.indices)

\* The first loop over the groups: whether some group stops it with an error.
NormalsGroupError(group) ==
    CASE group.prim = TriList ->
            nIndices(group) < 3 \/ nIndices(group) % 3 # 0
      [] group.prim \in {TriStrip, TriFan} -> nIndices(group) < 3
      [] OTHER -> TRUE

\* The faces one group contributes to nFaces.
NormalsGroupFaceCount(group) ==
    CASE group.prim = TriList -> nIndices(group) \div 3
      [] group.prim \in {TriStrip, TriFan} -> nIndices(group) - 2
      [] OTHER -> 0

RECURSIVE TriListFaces(_, _, _)
TriListFaces(group, j, faces) ==
    IF ~(j < nIndices(group) \div 3) THEN faces
    ELSE TriListFaces(group, j + 1,
             Append(faces, <<IndexAt(group, j * 3),
                             IndexAt(group, j * 3 + 1),
                             IndexAt(group, j * 3 + 2)>>))

\* A mutant of the strip case: the two orientations are taken the other
\* way round.
RECURSIVE TriStripFacesSwapped(_, _, _)
TriStripFacesSwapped(group, j, faces) ==
    IF ~(j < nIndices(group)) THEN faces
    ELSE TriStripFacesSwapped(group, j + 1,
             Append(faces,
                    IF j % 2 = 1
                    THEN <<IndexAt(group, j - 2), IndexAt(group, j - 1), IndexAt(group, j)>>
                    ELSE <<IndexAt(group, j - 1), IndexAt(group, j - 2), IndexAt(group, j)>>))

RECURSIVE TriStripFaces(_, _, _)
TriStripFaces(group, j, faces) ==
    IF ~(j < nIndices(group)) THEN faces
    ELSE TriStripFaces(group, j + 1,
             Append(faces,
                    IF j % 2 = 0
                    THEN <<IndexAt(group, j - 2), IndexAt(group, j - 1), IndexAt(group, j)>>
                    ELSE <<IndexAt(group, j - 1), IndexAt(group, j - 2), IndexAt(group, j)>>))

RECURSIVE TriFanFaces(_, _, _)
TriFanFaces(group, j, faces) ==
    IF ~(j < nIndices(group)) THEN faces
    ELSE TriFanFaces(group, j + 1,
             Append(faces, <<IndexAt(group, 0), IndexAt(group, j - 1), IndexAt(group, j)>>))

\* The second loop over the groups of generateNormals: the i triples of the
\* faces, in the order they are stored.
RECURSIVE NormalsFaceIndices(_, _, _)
NormalsFaceIndices(groups, g, faces) ==
    IF g > Len(groups) THEN faces
    ELSE NormalsFaceIndices(groups, g + 1,
             CASE groups[g].prim = TriList -> TriListFaces(groups[g], 0, faces)
               [] groups[g].prim = TriStrip -> TriStripFaces(groups[g], 2, faces)
               [] groups[g].prim = TriFan -> TriFanFaces(groups[g], 2, faces)
               [] OTHER -> faces)

\* The face normal of generateNormals (lines 772-783).
FaceNormal(vertexData, posOffset, stride, i) ==
    LET p0 == getVertex(vertexData, posOffset, stride, i[1])
        p1 == getVertex(vertexData, posOffset, stride, i[2])
        p2 == getVertex(vertexData, posOffset, stride, i[3])
        n == Cross(VecSub(p1, p0), VecSub(p2, p1))
    IN  IF squaredNorm(n) > 0 THEN normalize(n) ELSE n

(***************************************************************************)
(* The welding predicates and joinVertices.  A corner is a Vertex whose    *)
(* `attributes` is the address (byte offset in the vertex buffer) its      *)
(* pointer holds.  A float read at an address outside the buffer is        *)
(* `garbage`.                                                              *)
(***************************************************************************)
ReadFloatAt(vertexData, stride, addr, garbage) ==
    IF addr >= 0 /\ addr + 3 < stride * Len(vertexData)
    THEN ReadFloat(vertexData, stride, addr)
    ELSE garbage

Abs(x) == IF x < 0 THEN -x ELSE x
Min(x, y) == IF x < y THEN x ELSE y

\* approxEqual with the precision precNum / precDen.
approxEqual(x, y, precNum, precDen) ==
    Abs(x - y) * precDen <= precNum * Min(Abs(x), Abs(y))

\* A mutant: the predicates compare the first float of the position alone.
PredicateKeyFirstFloat(vertexData, stride, v, posOffset, texCoordOffset, withTex, garbage) ==
    << ReadFloatAt(vertexData, stride, v.attributes + posOffset, garbage) >>

\* The floats a predicate compares: the position read at `posOffset` from
\* the pointer and, with texture coordinates, two floats at `texCoordOffset`.
PredicateKey(vertexData, stride, v, posOffset, texCoordOffset, withTex, garbage) ==
    [k \in 1..(IF withTex THEN 5 ELSE 3) |->
        IF k <= 3
        THEN ReadFloatAt(vertexData, stride,
                         v.attributes + posOffset + 4 * (k - 1), garbage)
        ELSE ReadFloatAt(vertexData, stride,
                         v.attributes + texCoordOffset + 4 * (k - 4), garbage)]

\* PointOrderingPredicate and PointTexCoordOrderingPredicate on the keys.
RECURSIVE KeyLess(_, _, _)
KeyLess(ka, kb, k) ==
    IF k = Len(ka) THEN ka[k] < kb[k]
    ELSE IF ka[k] < kb[k] THEN TRUE
    ELSE IF ka[k] > kb[k] THEN FALSE
    ELSE KeyLess(ka, kb, k + 1)

\* PointEquivalencePredicate and PointTexCoordEquivalencePredicate.
KeyEquivalent(ka, kb, precNum, precDen) ==
    \A k \in 1..Len(ka) : approxEqual(ka[k], kb[k], precNum, precDen)

\* The loop of lines 633-642 over the sorted corners.  idx[c] is the vertex
\* index of corner c; the merge map is keyed by vertex index.
RECURSIVE MergeMapLoop(_, _, _, _, _, _)
MergeMapLoop(sorted, idx, eq, i, lastUnique, mergeMap) ==
    IF i > Len(sorted) THEN mergeMap
    ELSE LET lu == IF i = 1 \/ ~eq[<<sorted[i - 1], sorted[i]>>] THEN i ELSE lastUnique
         IN  MergeMapLoop(sorted, idx, eq, i + 1, lu,
                          [mergeMap EXCEPT ![idx[sorted[i]]] = idx[sorted[lu]]])

\* One representative index for each class of corners.
RECURSIVE ChooseRepresentatives(_, _)
ChooseRepresentatives(classes, idx) ==
    IF classes = {} THEN { <<>> }
    ELSE LET K == CHOOSE K \in classes : TRUE
         IN  { (K :> r) @@ rest :
                 r \in { idx[c] : c \in K },
                 rest \in ChooseRepresentatives(classes \ {K}, idx) }

\* joinVertices when the floats beyond the buffer hold `garbage`.  p tells
\* the predicates: [withTex, posOffset (the one given
\* to the predicates), texCoordOffset, precNum, precDen].  The result is the
\* set of outcomes [vi, beyond]: vi[f] the point indices of face f, beyond
\* whether mergeMap (3 * |faces| entries) was indexed at or beyond its size.
JoinedWith(faceIndices, vertexData, desc, p, garbage) ==
    LET nFaces == Len(faceIndices)
        n == 3 * nFaces
        posOffset == getAttribute(desc, Position).offset
        idx == SubSeq([c \in 1..n |->
                          faceIndices[((c - 1) \div 3) + 1][((c - 1) % 3) + 1]], 1, n)
        corner(c) == Vertex(idx[c], posOffset + desc.stride * idx[c])
        key == SubSeq([c \in 1..n |->
                          PredicateKey(vertexData, desc.stride, corner(c),
                                       p.posOffset, p.texCoordOffset, p.withTex,
                                       garbage)], 1, n)
        ordering ==
            SubSeq([c \in 1..n |->
                       SubSeq([d \in 1..n |-> KeyLess(key[c], key[d], 1)], 1, n)],
                   1, n)
        equivalence ==
            SubSeq([c \in 1..n |->
                       SubSeq([d \in 1..n |->
                                  KeyEquivalent(key[c], key[d], p.precNum, p.precDen)],
                              1, n)],
                   1, n)
        lt == Tabulated(n, ordering)
        eq == Tabulated(n, equivalence)
        used == { idx[c] : c \in 1..n }
        beyond == \E c \in 1..n : idx[c] >= n
        agree == /\ IsStrictWeakOrdering(n, lt)
                 /\ \A c, d \in 1..n :
                       eq[<<c, d>>] <=> (~lt[<<c, d>>] /\ ~lt[<<d, c>>])
        \* When the equivalence is the one of the ordering, the runs of the
        \* sorted array are its classes, and the first corner of a run may
        \* be any corner of the class.
        classOf(c) == { d \in 1..n : eq[<<c, d>>] }
        classes == { classOf(c) : c \in 1..n }
        chosen == { [v \in used |->
                        rep[classOf(CHOOSE c \in 1..n : idx[c] = v)]] :
                      rep \in ChooseRepresentatives(classes, idx) }
        walked == { MergeMapLoop(order, idx, eq, 1, 1, [v \in used |-> 0]) :
                      order \in SortOutcomes(n, lt) }
    IN  IF nFaces = 0
        THEN { [vi |-> <<>>, beyond |-> FALSE] }
        ELSE { [vi |-> [f \in 1..nFaces |->
                          [k \in 1..3 |-> mergeMap[faceIndices[f][k]]]],
                beyond |-> beyond] :
                 mergeMap \in (IF agree THEN chosen ELSE walked) }

\* Whether a predicate reads a float of some corner beyond the vertex buffer.
PredicateReadsBeyond(faceIndices, vertexData, desc, p) ==
    LET posOffset == getAttribute(desc, Position).offset
        size == desc.stride * Len(vertexData)
    IN  \E f \in 1..Len(faceIndices), k \in 1..3 :
           LET attributes == posOffset + desc.stride * faceIndices[f][k]
           IN  \/ attributes + p.posOffset + 12 > size
               \/ p.withTex /\ attributes + p.texCoordOffset + 8 > size

\* What a float read beyond the vertex buffer may hold.
GarbageFloats == {0, 2}

joinVertices(faceIndices, vertexData, desc, p) ==
    UNION { JoinedWith(faceIndices, vertexData, desc, p, garbage) :
              garbage \in IF PredicateReadsBeyond(faceIndices, vertexData, desc, p)
                          THEN GarbageFloats ELSE {0} }

(***************************************************************************)
(* Adjacency lists, averageFaceVectors and copyVertex.                     *)
(***************************************************************************)
\* The list vertexFaces[v][1..count] (faces 1-based): each corner that is the
\* point v puts its face in the last free slot, so the list is filled from
\* the back.
RECURSIVE VertexFaces(_, _, _, _)
VertexFaces(vi, v, c, list) ==
    IF c > 3 * Len(vi) THEN list
    ELSE LET f == ((c - 1) \div 3) + 1
             k == ((c - 1) % 3) + 1
         IN  VertexFaces(vi, v, c + 1,
                         IF vi[f][k] = v THEN <<f>> \o list ELSE list)

\* The list each corner of each face is averaged over: vertexFaces[vi] for
\* the point vi of the corner.
CornerFaces(vi) ==
    SubSeq([f \in 1..Len(vi) |->
               SubSeq([k \in 1..3 |-> VertexFaces(vi, vi[f][k], 1, <<>>)], 1, 3)],
           1, Len(vi))

\* The smoothing threshold is kept doubled: cos2 stands for the float
\* cosSmoothingAngle = cos2 / 2, and cosAngle > cosSmoothingAngle is
\* 2 * cosAngle > cos2.
RECURSIVE AverageLoop(_, _, _, _, _, _)
AverageLoop(vectors, thisFace, vertexFaces, cos2, i, v) ==
    IF i > Len(vertexFaces) THEN v
    ELSE LET f == vertexFaces[i]
             cosAngle == Dot(vectors[thisFace], vectors[f])
         IN  AverageLoop(vectors, thisFace, vertexFaces, cos2, i + 1,
                         IF f = thisFace \/ 2 * cosAngle > cos2
                         THEN VecAdd(v, vectors[f])
                         ELSE v)

\* A mutant: a face whose cosine equals the threshold is added too.
RECURSIVE AverageLoopWithTies(_, _, _, _, _, _)
AverageLoopWithTies(vectors, thisFace, vertexFaces, cos2, i, v) ==
    IF i > Len(vertexFaces) THEN v
    ELSE LET f == vertexFaces[i]
             cosAngle == Dot(vectors[thisFace], vectors[f])
         IN  AverageLoopWithTies(vectors, thisFace, vertexFaces, cos2, i + 1,
                                 IF f = thisFace \/ 2 * cosAngle >= cos2
                                 THEN VecAdd(v, vectors[f])
                                 ELSE v)

averageFaceVectorsWithTies(vectors, thisFace, vertexFaces, cos2) ==
    LET v == AverageLoopWithTies(vectors, thisFace, vertexFaces, cos2, 1, ZeroVector)
    IN  IF squaredNorm(v) = 0 THEN <<1, 0, 0>> ELSE normalize(v)

\* A mutant: every face of the list is added, whatever the angle.
RECURSIVE AverageLoopAll(_, _, _, _)
AverageLoopAll(vectors, vertexFaces, i, v) ==
    IF i > Len(vertexFaces) THEN v
    ELSE AverageLoopAll(vectors, vertexFaces, i + 1,
                        VecAdd(v, vectors[vertexFaces[i]]))

averageAllFaceVectors(vectors, thisFace, vertexFaces, cos2) ==
    LET v == AverageLoopAll(vectors, vertexFaces, 1, ZeroVector)
    IN  IF squaredNorm(v) = 0 THEN <<1, 0, 0>> ELSE normalize(v)

\* A mutant: the comparison with the threshold is turned round.
RECURSIVE AverageLoopReversed(_, _, _, _, _, _)
AverageLoopReversed(vectors, thisFace, vertexFaces, cos2, i, v) ==
    IF i > Len(vertexFaces) THEN v
    ELSE LET f == vertexFaces[i]
             cosAngle == Dot(vectors[thisFace], vectors[f])
         IN  AverageLoopReversed(vectors, thisFace, vertexFaces, cos2, i + 1,
                                 IF f = thisFace \/ 2 * cosAngle < cos2
                                 THEN VecAdd(v, vectors[f])
                                 ELSE v)

averageFaceVectorsReversed(vectors, thisFace, vertexFaces, cos2) ==
    LET v == AverageLoopReversed(vectors, thisFace, vertexFaces, cos2, 1, ZeroVector)
    IN  IF squaredNorm(v) = 0 THEN <<1, 0, 0>> ELSE normalize(v)

\* A mutant: a sum that is zero is returned as it is.
averageFaceVectorsNoFallback(vectors, thisFace, vertexFaces, cos2) ==
    LET v == AverageLoop(vectors, thisFace, vertexFaces, cos2, 1, ZeroVector)
    IN  IF squaredNorm(v) = 0 THEN ZeroVector ELSE normalize(v)

averageFaceVectors(vectors, thisFace, vertexFaces, cos2) ==
    LET v == AverageLoop(vectors, thisFace, vertexFaces, cos2, 1, ZeroVector)
    IN  IF squaredNorm(v) = 0 THEN <<1, 0, 0>> ELSE normalize(v)

\* fromOffsets (lines 866-888): for each attribute of newDesc the offset it
\* is copied from in desc, -1 standing for ~0 (not copied).
FromOffsets(desc, newDesc, generated) ==
    [i \in 1..nAttributes(newDesc) |->
        IF newDesc.attributes[i].semantic = generated THEN -1
        ELSE IF \E j \in 1..nAttributes(desc) :
                   desc.attributes[j].semantic = newDesc.attributes[i].semantic
        THEN desc.attributes[
                 CHOOSE j \in 1..nAttributes(desc) :
                    /\ desc.attributes[j].semantic = newDesc.attributes[i].semantic
                    /\ \A h \in 1..(j - 1) :
                          desc.attributes[h].semantic # newDesc.attributes[i].semantic
             ].offset
        ELSE -1]

\* The offset of the generated attribute: the last one with that semantic.
GeneratedOffset(newDesc, generated) ==
    LET S == { i \in 1..nAttributes(newDesc) :
                 newDesc.attributes[i].semantic = generated }
    IN  IF S = {} THEN 0
        ELSE newDesc.attributes[CHOOSE i \in S : \A j \in S : j <= i].offset

\* The bytes of a Float3 value.
BytesOfVector(v) == BytesOfFloat(v[1]) \o BytesOfFloat(v[2]) \o BytesOfFloat(v[3])

\* A byte of the new buffer that no memcpy writes.
Unwritten == -1

\* Where each byte of a new record comes from: -k for byte k of the
\* generated vector, p > 0 for byte p of the old record (copyVertex, the last
\* attribute that covers the byte winning), 0 for a byte no memcpy writes.
CopyLayout(newDesc, fromOffsets, generatedOffset) ==
    LET copied(b) ==
            { i \in 1..nAttributes(newDesc) :
                /\ fromOffsets[i] # -1
                /\ newDesc.attributes[i].offset <= b
                /\ b < newDesc.attributes[i].offset
                       + getVertexAttributeSize(newDesc.attributes[i].format) }
    IN  SubSeq([b1 \in 1..newDesc.stride |->
                   LET b == b1 - 1
                       from == copied(b)
                   IN  IF generatedOffset <= b /\ b < generatedOffset + 12
                       THEN -(b - generatedOffset + 1)
                       ELSE IF from # {}
                       THEN LET i == CHOOSE i \in from : \A j \in from : j <= i
                            IN  fromOffsets[i] + (b - newDesc.attributes[i].offset) + 1
                       ELSE 0],
               1, newDesc.stride)

\* copyVertex followed by the memcpy of the generated vector: the new record
\* of one corner.
NewVertexRecord(layout, oldRecord, vector) ==
    LET vbytes == BytesOfVector(vector)
    IN  SubSeq([b \in 1..Len(layout) |->
                   IF layout[b] < 0 THEN vbytes[-layout[b]]
                   ELSE IF layout[b] > 0 THEN oldRecord[layout[b]]
                   ELSE Unwritten],
               1, Len(layout))

(***************************************************************************)
(* generateNormals.  The result is a set of outcomes                       *)
(* [status, mesh, faces]: status "ok" with the new mesh and the face       *)
(* array, "error" when nullptr is returned, "crash" when an access beyond  *)
(* an array ends the process.                                              *)
(***************************************************************************)
\* A mutant: the trivial index list starts at 1.
RECURSIVE TrivialGroupsFromOne(_, _, _, _)
TrivialGroupsFromOne(groups, g, firstIndex, out) ==
    IF g > Len(groups) THEN out
    ELSE LET faceCount == NormalsGroupFaceCount(groups[g])
         IN  TrivialGroupsFromOne(groups, g + 1, firstIndex + faceCount * 3,
                 Append(out,
                        PrimitiveGroup(TriList, groups[g].materialIndex,
                                       [k \in 1..(faceCount * 3) |-> firstIndex + k])))

\* The trivial index list handed to addGroup for each input group.
RECURSIVE TrivialGroups(_, _, _, _)
TrivialGroups(groups, g, firstIndex, out) ==
    IF g > Len(groups) THEN out
    ELSE LET faceCount == NormalsGroupFaceCount(groups[g])
         IN  TrivialGroups(groups, g + 1, firstIndex + faceCount * 3,
                 Append(out,
                        PrimitiveGroup(TriList, groups[g].materialIndex,
                                       [k \in 1..(faceCount * 3) |-> firstIndex + k - 1])))

\* A mutant: every corner of a face is copied from the record of the face's
\* first corner.
GeneratedMeshFromFirstCorner(m, faceI, vertexFaces, vectors, cos2, generated, groups) ==
    LET nFaces == Len(faceI)
        newDesc == augmentVertexDescription(m.desc, generated, Float3)
        fromOffsets == FromOffsets(m.desc, newDesc, generated)
        generatedOffset == GeneratedOffset(newDesc, generated)
        layout == CopyLayout(newDesc, fromOffsets, generatedOffset)
        newVertexData ==
            [c \in 1..(3 * nFaces) |->
                LET f == ((c - 1) \div 3) + 1
                    j == ((c - 1) % 3) + 1
                IN  NewVertexRecord(layout, RecordAt(m.vertexData, faceI[f][1]),
                        averageFaceVectors(vectors, f, vertexFaces[f][j], cos2))]
    IN  Mesh(newDesc, newVertexData, groups)

\* The part both generators share after the face vectors and the lists of
\* faces are known (vertexFaces[f][j] the list of corner j of face f): the
\* averaged vector of every corner and the new mesh.
GeneratedMesh(m, faceI, vertexFaces, vectors, cos2, generated, groups) ==
    LET nFaces == Len(faceI)
        newDesc == augmentVertexDescription(m.desc, generated, Float3)
        fromOffsets == FromOffsets(m.desc, newDesc, generated)
        generatedOffset == GeneratedOffset(newDesc, generated)
        layout == CopyLayout(newDesc, fromOffsets, generatedOffset)
        vertexVector(f, j) ==
            averageFaceVectors(vectors, f, vertexFaces[f][j], cos2)
        newVertexData ==
            [c \in 1..(3 * nFaces) |->
                LET f == ((c - 1) \div 3) + 1
                    j == ((c - 1) % 3) + 1
                IN  NewVertexRecord(layout, RecordAt(m.vertexData, faceI[f][j]),
                                    vertexVector(f, j))]
    IN  Mesh(newDesc, newVertexData, groups)

NoFaces == <<>>

generateNormals(m, cos2, weld) ==
    LET desc == m.desc
        posOffset == getAttribute(desc, Position).offset
        faceI == NormalsFaceIndices(m.groups, 1, <<>>)
        nFaces == Len(faceI)
        normals == SubSeq([f \in 1..nFaces |->
                              FaceNormal(m.vertexData, posOffset, desc.stride, faceI[f])],
                          1, nFaces)
        joined ==
            IF weld
            THEN joinVertices(faceI, m.vertexData, desc,
                              [withTex |-> FALSE, posOffset |-> 0,
                               texCoordOffset |-> 0, precNum |-> 0, precDen |-> 1])
            ELSE { [vi |-> faceI, beyond |-> FALSE] }
        \* Outcomes with the same lists of faces have the same new mesh.
        result(vertexFaces) ==
            LET newMesh == GeneratedMesh(m, faceI, vertexFaces, normals, cos2, Normal,
                                         TrivialGroups(m.groups, 1, 0, <<>>))
            IN  { [status |-> "ok",
                   mesh |-> newMesh,
                   faces |-> [f \in 1..nFaces |->
                                 Face(faceI[f], j.vi[f], normals[f])]] :
                  j \in { k \in joined : CornerFaces(k.vi) = vertexFaces } }
        failed(status) == [status |-> status, mesh |-> NoMesh, faces |-> NoFaces]
    IN  IF getAttribute(desc, Position).format # Float3
        THEN { failed("error") }
        ELSE IF \E g \in 1..Len(m.groups) : NormalsGroupError(m.groups[g])
        THEN { failed("error") }
        ELSE UNION { result(vertexFaces) :
                       vertexFaces \in { CornerFaces(j.vi) : j \in joined } }
             \cup (IF \E j \in joined : j.beyond THEN { failed("crash") } ELSE {})

(***************************************************************************)
(* generateTangents.  Outcomes as for generateNormals; "crash" is also the *)
(* outcome of a failed assert in a build that keeps the asserts.           *)
(***************************************************************************)
\* v * (1.0f / a) for the a whose inverse the vectors of the model can be
\* multiplied by exactly.
ScaleByInverse(v, a) ==
    CHOOSE r \in { [k \in 1..3 |-> v[k] \div a] } : VecScale(a, r) = v

\* A mutant: the division by the determinant is forgotten.
FaceTangentUnscaled(vertexData, posOffset, texCoordOffset, stride, i) ==
    LET p0 == getVertex(vertexData, posOffset, stride, i[1])
        p1 == getVertex(vertexData, posOffset, stride, i[2])
        p2 == getVertex(vertexData, posOffset, stride, i[3])
        tc0 == getTexCoord(vertexData, texCoordOffset, stride, i[1])
        tc1 == getTexCoord(vertexData, texCoordOffset, stride, i[2])
        tc2 == getTexCoord(vertexData, texCoordOffset, stride, i[3])
        s1 == tc1[1] - tc0[1]
        s2 == tc2[1] - tc0[1]
        t1 == tc1[2] - tc0[2]
        t2 == tc2[2] - tc0[2]
        a == s1 * t2 - s2 * t1
    IN  IF a # 0
        THEN VecSub(VecScale(t2, VecSub(p1, p0)), VecScale(t1, VecSub(p2, p0)))
        ELSE ZeroVector

\* The face tangent (lines 1046-1064).
FaceTangent(vertexData, posOffset, texCoordOffset, stride, i) ==
    LET p0 == getVertex(vertexData, posOffset, stride, i[1])
        p1 == getVertex(vertexData, posOffset, stride, i[2])
        p2 == getVertex(vertexData, posOffset, stride, i[3])
        tc0 == getTexCoord(vertexData, texCoordOffset, stride, i[1])
        tc1 == getTexCoord(vertexData, texCoordOffset, stride, i[2])
        tc2 == getTexCoord(vertexData, texCoordOffset, stride, i[3])
        s1 == tc1[1] - tc0[1]
        s2 == tc2[1] - tc0[1]
        t1 == tc1[2] - tc0[2]
        t2 == tc2[2] - tc0[2]
        a == s1 * t2 - s2 * t1
    IN  IF a # 0
        THEN ScaleByInverse(VecSub(VecScale(t2, VecSub(p1, p0)),
                                   VecScale(t1, VecSub(p2, p0))), a)
        ELSE ZeroVector

\* The second loop over the groups of generateTangents.
RECURSIVE TangentsFaceIndices(_, _, _)
TangentsFaceIndices(groups, g, faces) ==
    IF g > Len(groups) THEN faces
    ELSE TangentsFaceIndices(groups, g + 1,
             IF groups[g].prim = TriList
             THEN TriListFaces(groups[g], 0, faces)
             ELSE faces)

generateTangents(m, weld) ==
    LET desc == m.desc
        posOffset == getAttribute(desc, Position).offset
        texCoordOffset == getAttribute(desc, Texture0).offset
        faceI == TangentsFaceIndices(m.groups, 1, <<>>)
        nFaces == Len(faceI)
        tangents == SubSeq([f \in 1..nFaces |->
                               FaceTangent(m.vertexData, posOffset, texCoordOffset,
                                           desc.stride, faceI[f])],
                           1, nFaces)
        joined ==
            IF weld
            THEN joinVertices(faceI, m.vertexData, desc,
                              [withTex |-> TRUE, posOffset |-> posOffset,
                               texCoordOffset |-> texCoordOffset,
                               precNum |-> 1, precDen |-> 100000])
            ELSE { [vi |-> faceI, beyond |-> FALSE] }
        \* Outcomes with the same lists of faces have the same new mesh.
        result(vertexFaces) ==
            LET newMesh == GeneratedMesh(m, faceI, vertexFaces, tangents, 0, Tangent,
                                         TrivialGroups(m.groups, 1, 0, <<>>))
            IN  { [status |-> "ok",
                   mesh |-> newMesh,
                   faces |-> [f \in 1..nFaces |->
                                 Face(faceI[f], j.vi[f], tangents[f])]] :
                  j \in { k \in joined : CornerFaces(k.vi) = vertexFaces } }
        failed(status) == [status |-> status, mesh |-> NoMesh, faces |-> NoFaces]
        assertFails == \E g \in 1..Len(m.groups) : nIndices(m.groups[g]) % 3 # 0
    IN  IF getAttribute(desc, Position).format # Float3
        THEN { failed("error") }
        ELSE IF getAttribute(desc, Normal).format # Float3
        THEN { failed("error") }
        ELSE IF getAttribute(desc, Texture0).format = InvalidFormat
        THEN { failed("error") }
        ELSE IF getAttribute(desc, Texture0).format # Float2
        THEN { failed("error") }
        ELSE IF \E g \in 1..Len(m.groups) : m.groups[g].prim # TriList
        THEN { failed("error") }
        ELSE UNION { result(vertexFaces) :
                       vertexFaces \in { CornerFaces(j.vi) : j \in joined } }
             \cup (IF assertFails \/ \E j \in joined : j.beyond
                   THEN { failed("crash") } ELSE {})

(***************************************************************************)
(* mergeModelMeshes.  A model is [materials, meshes].                      *)
(***************************************************************************)
Model(materials, meshes) == [materials |-> materials, meshes |-> meshes]
NoModel == Model(<<>>, <<>>)

\* A mutant: the group is added under material 0.
addGroupWithOffsetNoMaterial(m, group, offset) ==
    IF nIndices(group) = 0 THEN m
    ELSE addGroup(m, group.prim, 0,
                  [k \in 1..nIndices(group) |-> group.indices[k] + offset])

addGroupWithOffset(m, group, offset) ==
    IF nIndices(group) = 0 THEN m
    ELSE addGroup(m, group.prim, group.materialIndex,
                  [k \in 1..nIndices(group) |-> group.indices[k] + offset])

\* The number of meshes, from meshIndex on, that go into one merged mesh.
RECURSIVE MatchingMeshes(_, _, _)
MatchingMeshes(meshes, meshIndex, nMatchingMeshes) ==
    IF meshIndex + nMatchingMeshes <= Len(meshes)
       /\ DescriptionEq(meshes[meshIndex + nMatchingMeshes].desc, meshes[meshIndex].desc)
    THEN MatchingMeshes(meshes, meshIndex, nMatchingMeshes + 1)
    ELSE nMatchingMeshes

RECURSIVE AddGroupsWithOffset(_, _, _, _)
AddGroupsWithOffset(mergedMesh, source, k, vertexCount) ==
    IF k > Len(source.groups) THEN mergedMesh
    ELSE AddGroupsWithOffset(addGroupWithOffset(mergedMesh, source.groups[k], vertexCount),
                             source, k + 1, vertexCount)

\* The loop that copies the vertex data and adds the groups of meshes
\* j .. last into the merged mesh.
RECURSIVE CopyMatching(_, _, _, _)
CopyMatching(meshes, j, last, mergedMesh) ==
    IF j > last THEN mergedMesh
    ELSE LET vertexCount == Len(mergedMesh.vertexData)
             copied == [mergedMesh EXCEPT
                           !.vertexData = mergedMesh.vertexData \o meshes[j].vertexData]
         IN  CopyMatching(meshes, j + 1, last,
                          AddGroupsWithOffset(copied, meshes[j], 1, vertexCount))

RECURSIVE TotalVertices(_, _, _)
TotalVertices(meshes, j, last) ==
    IF j > last THEN 0
    ELSE meshes[j].nVertices + TotalVertices(meshes, j + 1, last)

RECURSIVE MergeLoop(_, _, _)
MergeLoop(meshes, meshIndex, merged) ==
    IF meshIndex > Len(meshes) THEN merged
    ELSE LET nMatchingMeshes == MatchingMeshes(meshes, meshIndex, 1)
             last == meshIndex + nMatchingMeshes - 1
             empty == [desc |-> meshes[meshIndex].desc,
                       nVertices |-> TotalVertices(meshes, meshIndex, last),
                       vertexData |-> <<>>,
                       groups |-> <<>>]
         IN  MergeLoop(meshes, meshIndex + nMatchingMeshes,
                       Append(merged, CopyMatching(meshes, meshIndex, last, empty)))

\* mergeModelMeshes: one outcome for each order std::sort may leave the
\* meshes in.
mergeModelMeshes(inModel, garbage) ==
    LET n == Len(inModel.meshes)
        lt == [ij \in (1..n) \X (1..n) |->
                  DescriptionLess(inModel.meshes[ij[1]].desc,
                                  inModel.meshes[ij[2]].desc, garbage)]
    IN  { Model(inModel.materials,
                MergeLoop([k \in 1..n |-> inModel.meshes[order[k]]], 1, <<>>)) :
            order \in SortOutcomes(n, lt) }

(***************************************************************************)
(* convertToStrips (built with TRISTRIP).  GenerateStrips belongs to the   *)
(* NvTriStrip library: what it returns for a triangle list is one of a few *)
(* results of the shapes the library produces.                             *)
(***************************************************************************)
PT_LIST == "PT_LIST"
PT_STRIP == "PT_STRIP"
PT_FAN == "PT_FAN"

\* NvTriStrip can only handle 16-bit indices.
StripVertexLimit == 65536

GenerateStrips(indices) ==
    { [r |-> FALSE, strips |-> <<>>],
      [r |-> TRUE, strips |-> << [type |-> PT_LIST, indices |-> indices] >>] }
    \cup (IF Len(indices) >= 3
          THEN { [r |-> TRUE,
                  strips |-> << [type |-> PT_STRIP, indices |-> SubSeq(indices, 1, 3)],
                                [type |-> PT_LIST,
                                 indices |-> SubSeq(indices, 4, Len(indices))] >>] }
          ELSE {})

\* The groups made from the strips of one source group (lines 1386-1413).
RECURSIVE NewStripGroups(_, _, _, _)
NewStripGroups(strips, j, group, groups) ==
    IF j > Len(strips) THEN groups
    ELSE LET prim == CASE strips[j].type = PT_LIST -> TriList
                       [] strips[j].type = PT_STRIP -> TriStrip
                       [] strips[j].type = PT_FAN -> TriFan
         IN  NewStripGroups(strips, j + 1, group,
                 IF Len(strips[j].indices) # 0
                 THEN Append(groups,
                             PrimitiveGroup(prim, group.materialIndex, strips[j].indices))
                 ELSE groups)

\* The loop over the groups: the outcomes [ok, groups], ok false when
\* GenerateStrips failed for some group.
RECURSIVE StripGroupsFrom(_, _, _)
StripGroupsFrom(m, i, groups) ==
    IF i > Len(m.groups) THEN { [ok |-> TRUE, groups |-> groups] }
    ELSE UNION { IF ~res.r
                 THEN { [ok |-> FALSE, groups |-> groups] }
                 ELSE StripGroupsFrom(m, i + 1,
                          NewStripGroups(res.strips, 1, m.groups[i], groups)) :
                 res \in GenerateStrips(m.groups[i].indices) }

\* convertToStrips: the outcomes [mesh, ret].
convertToStrips(m) ==
    IF m.nVertices >= StripVertexLimit
    THEN { [mesh |-> m, ret |-> TRUE] }
    ELSE IF \E i \in 1..Len(m.groups) : m.groups[i].prim # TriList
    THEN { [mesh |-> m, ret |-> TRUE] }
    ELSE { IF o.ok
           THEN [mesh |-> [m EXCEPT !.groups = o.groups], ret |-> TRUE]
           ELSE [mesh |-> m, ret |-> FALSE] :
           o \in StripGroupsFrom(m, 1, <<>>) }

(***************************************************************************)
(* Input descriptions.  The model loader and augmentVertexDescription lay  *)
(* attributes out back to back in list order, each semantic at most once,  *)
(* the stride being the sum of the sizes.                                  *)
(***************************************************************************)
MaxAttributes == 2

InputSemantics == {Position, Normal, Texture0}
InputFormats == {Float1, Float2}
AugmentSemantics == {Position, Normal, Tangent, Texture0}
AugmentFormats == {Float1, Float2, Float3}

RECURSIVE PackFrom(_, _, _)
PackFrom(pairs, i, stride) ==
    IF i > Len(pairs) THEN <<>>
    ELSE <<VertexAttribute(pairs[i][1], pairs[i][2], stride)>>
         \o PackFrom(pairs, i + 1, stride + getVertexAttributeSize(pairs[i][2]))

RECURSIVE SizeSum(_, _)
SizeSum(formats, n) ==
    IF n = 0 THEN 0 ELSE SizeSum(formats, n - 1) + getVertexAttributeSize(formats[n])

PackedDescription(pairs) ==
    VertexDescription(SizeSum([i \in 1..Len(pairs) |-> pairs[i][2]], Len(pairs)),
                      PackFrom(pairs, 1, 0))

SemanticFormatLists ==
    UNION { { p \in [1..n -> InputSemantics \X InputFormats] :
                \A i, j \in 1..n : i # j => p[i][1] # p[j][1] } :
            n \in 0..MaxAttributes }

InputDescriptions == { PackedDescription(p) : p \in SemanticFormatLists }

\* What a read past the end of an attribute array may yield.
GarbageAttributes ==
    { VertexAttribute(InvalidSemantic, InvalidFormat, 0),
      VertexAttribute(Texture0, UByte4, 255) }

\* The variables a specification does not use stay at these values.
NoDescState ==
    /\ descA = NoDescription
    /\ descB = NoDescription
    /\ oldDesc = NoDescription
    /\ augArg = <<InvalidSemantic, InvalidFormat>>
    /\ cmp = [ab |-> FALSE, ba |-> FALSE, eq |-> FALSE,
              abBeyond |-> FALSE, baBeyond |-> FALSE]

NoMeshState ==
    /\ mesh = NoMesh
    /\ oldMesh = NoMesh
    /\ inMesh = NoMesh
    /\ ret = "none"
    /\ calls = 0

NoOptions ==
    [genNormals |-> FALSE, genTangents |-> FALSE, weldVertices |-> FALSE,
     mergeMeshes |-> FALSE, uniquify |-> FALSE, stripify |-> FALSE,
     tristrip |-> FALSE, cos2 |-> 1]

NoModelState ==
    /\ model = NoModel
    /\ oldModel = NoModel
    /\ newModel = NoModel
    /\ opts = NoOptions
    /\ faceArray = NoFaces
    /\ meshI = 0

NoComparison == [ab |-> FALSE, ba |-> FALSE, eq |-> FALSE,
                 abBeyond |-> FALSE, baBeyond |-> FALSE]

(***************************************************************************)
(* SpecDesc: two descriptions are compared, or one is augmented.           *)
(***************************************************************************)
InitDesc ==
    /\ pc = "start"
    /\ descA \in InputDescriptions
    /\ descB \in InputDescriptions
    /\ oldDesc = NoDescription
    /\ augArg = <<InvalidSemantic, InvalidFormat>>
    /\ cmp = NoComparison
    /\ NoMeshState
    /\ NoModelState

CompareDescriptions ==
    /\ pc = "start"
    /\ \E garbage \in GarbageAttributes :
          cmp' = [ab |-> DescriptionLess(descA, descB, garbage),
                  ba |-> DescriptionLess(descB, descA, garbage),
                  eq |-> DescriptionEq(descA, descB),
                  abBeyond |-> DescriptionLessReadsBeyond(descA, descB, garbage),
                  baBeyond |-> DescriptionLessReadsBeyond(descB, descA, garbage)]
    /\ pc' = "compared"
    /\ UNCHANGED <<descA, descB, oldDesc, augArg>>
    /\ UNCHANGED meshVars
    /\ UNCHANGED modelVars

AugmentVertexDescription ==
    /\ pc = "start"
    /\ \E semantic \in AugmentSemantics, format \in AugmentFormats :
          /\ descA' = augmentVertexDescription(descA, semantic, format)
          /\ augArg' = <<semantic, format>>
    /\ oldDesc' = descA
    /\ pc' = "augmented"
    /\ UNCHANGED <<descB, cmp>>
    /\ UNCHANGED meshVars
    /\ UNCHANGED modelVars

NextDesc == CompareDescriptions \/ AugmentVertexDescription

SpecDesc == InitDesc /\ [][NextDesc]_vars

(***************************************************************************)
(* Claims about descriptions.                                              *)
(***************************************************************************)
\* The lexicographic order by stride, attribute count, then the attributes
\* pairwise by (semantic, format, offset).
AttributeKeyLess(a, b) ==
    \/ a.semantic < b.semantic
    \/ a.semantic = b.semantic /\ a.format < b.format
    \/ a.semantic = b.semantic /\ a.format = b.format /\ a.offset < b.offset

LexLess(a, b) ==
    \/ a.stride < b.stride
    \/ a.stride = b.stride /\ nAttributes(a) < nAttributes(b)
    \/ /\ a.stride = b.stride
       /\ nAttributes(a) = nAttributes(b)
       /\ \E i \in 1..nAttributes(a) :
             /\ AttributeKeyLess(a.attributes[i], b.attributes[i])
             /\ \A j \in 1..(i - 1) : a.attributes[j] = b.attributes[j]

\* C7: operator< on descriptions is the strict total order that is
\* lexicographic by stride, attribute count and attributes: exactly one of
\* a<b, b<a, a==b holds, and no attribute is read at or beyond the attribute
\* count of either description.
C7_StrictTotalOrder ==
    pc = "compared" =>
        /\ cmp.ab = LexLess(descA, descB)
        /\ cmp.ba = LexLess(descB, descA)
        /\ ~(cmp.ab /\ cmp.ba)
        /\ (cmp.ab \/ cmp.ba \/ cmp.eq)
        /\ ~(cmp.eq /\ (cmp.ab \/ cmp.ba))
        /\ ~cmp.abBeyond
        /\ ~cmp.baBeyond

HasAttribute(desc, semantic, format) ==
    \E i \in 1..nAttributes(desc) :
        /\ desc.attributes[i].semantic = semantic
        /\ desc.attributes[i].format = format

KeptAttributes(desc, semantic, format) ==
    SelectSeq(desc.attributes,
              LAMBDA x : ~(x.semantic = semantic /\ x.format # format))

SemanticFormat(attributes) ==
    [i \in 1..Len(attributes) |-> <<attributes[i].semantic, attributes[i].format>>]

CanonicalLayout(desc) ==
    /\ \A i \in 1..nAttributes(desc) :
          desc.attributes[i].offset =
              SizeSum([j \in 1..nAttributes(desc) |-> desc.attributes[j].format], i - 1)
    /\ desc.stride =
          SizeSum([j \in 1..nAttributes(desc) |-> desc.attributes[j].format],
                  nAttributes(desc))

RequestedIsLast(desc, semantic, format) ==
    /\ nAttributes(desc) > 0
    /\ desc.attributes[nAttributes(desc)].semantic = semantic
    /\ desc.attributes[nAttributes(desc)].format = format

AugmentKeepsAndPacks ==
    LET kept == KeptAttributes(oldDesc, augArg[1], augArg[2])
        matched == HasAttribute(oldDesc, augArg[1], augArg[2])
    IN  /\ SemanticFormat(descA.attributes) =
              SemanticFormat(kept) \o (IF matched THEN <<>> ELSE <<augArg>>)
        /\ CanonicalLayout(descA)
        /\ Cardinality({ i \in 1..nAttributes(descA) :
                            /\ descA.attributes[i].semantic = augArg[1]
                            /\ descA.attributes[i].format = augArg[2] }) = 1

\* C9 as stated: the canonical re-layout, in which the requested attribute is
\* the last attribute if and only if no input attribute matched it.
C9_LastIffNotMatched ==
    pc = "augmented" =>
        /\ AugmentKeepsAndPacks
        /\ RequestedIsLast(descA, augArg[1], augArg[2])
              <=> ~HasAttribute(oldDesc, augArg[1], augArg[2])

\* C9 (amended): augmentVertexDescription keeps every input attribute except
\* one with the requested semantic and another format, in their order, packs
\* the offsets, holds the requested (semantic, format) exactly once, sets the
\* stride to the sum of the sizes, and puts the requested attribute last
\* whenever no input attribute matched it (a matched attribute stays at its
\* place among the kept ones, which may be the last place too).
C9_CanonicalRelayout ==
    pc = "augmented" =>
        /\ AugmentKeepsAndPacks
        /\ ~HasAttribute(oldDesc, augArg[1], augArg[2])
              => RequestedIsLast(descA, augArg[1], augArg[2])
        /\ HasAttribute(oldDesc, augArg[1], augArg[2])
              => \E i \in 1..nAttributes(descA) :
                    /\ descA.attributes[i].semantic = augArg[1]
                    /\ KeptAttributes(oldDesc, augArg[1], augArg[2])[i].semantic = augArg[1]

\* An attribute of the requested semantic and another format was dropped, an
\* attribute before it and one after it were kept and re-packed.
C9_Witness ==
    /\ pc = "augmented"
    /\ nAttributes(oldDesc) = 2
    /\ oldDesc.attributes[1].semantic = augArg[1]
    /\ oldDesc.attributes[1].format # augArg[2]
    /\ nAttributes(descA) = 2
    /\ descA.attributes[1].offset # oldDesc.attributes[2].offset

(***************************************************************************)
(* SpecDedup: uniquifyVertices is applied to a mesh, up to MaxCalls times. *)
(* The input meshes have one four-byte attribute; the bytes at             *)
(* VaryingBytes take the values of ByteValues, the others are 0.  Every    *)
(* index of an input mesh is below its vertex count.                       *)
(***************************************************************************)
MaxVertices == 3
MaxCalls == 2

ByteValues == {0, 255}
VaryingBytes == {1, 4}

DedupDescription == PackedDescription(<< <<Color0, UByte4>> >>)

DedupRecords ==
    { r \in [1..DedupDescription.stride -> ByteValues \cup {0}] :
        \A i \in 1..DedupDescription.stride : i \notin VaryingBytes => r[i] = 0 }

DedupGroups(nv) ==
    IF nv = 0 THEN { <<>> }
    ELSE { << PrimitiveGroup(TriList, 0, indices),
              PrimitiveGroup(TriFan, 1, <<nv - 1, 0, nv - 1, 0>>) >> :
           indices \in [1..3 -> 0..(nv - 1)] }

DedupMeshes(maxVertices) ==
    UNION { { Mesh(DedupDescription, vertexData, groups) :
                vertexData \in [1..nv -> DedupRecords], groups \in DedupGroups(nv) } :
            nv \in 0..maxVertices }

IndicesValid(m) ==
    \A g \in 1..Len(m.groups) : \A k \in 1..Len(m.groups[g].indices) :
        m.groups[g].indices[k] \in 0..(m.nVertices - 1)

InitDedup ==
    /\ pc = "start"
    /\ mesh \in DedupMeshes(MaxVertices)
    /\ oldMesh = mesh
    /\ inMesh = mesh
    /\ ret = "none"
    /\ calls = 0
    /\ NoDescState
    /\ NoModelState

UniquifyVertices ==
    /\ pc \in {"start", "uniquified"}
    /\ calls < MaxCalls
    /\ \E r \in uniquifyVertices(mesh) :
          /\ mesh' = r.mesh
          /\ ret' = r.ret
    /\ oldMesh' = mesh
    /\ calls' = calls + 1
    /\ pc' = "uniquified"
    /\ UNCHANGED inMesh
    /\ UNCHANGED descVars
    /\ UNCHANGED modelVars

NextDedup == UniquifyVertices

SpecDedup == InitDedup /\ [][NextDedup]_vars

\* C1: uniquifyVertices preserves every realised triangle: for a mesh whose
\* indices are below its vertex count, the number, order, primitive kind and
\* index count of the groups are unchanged, and the record at the new index
\* of every index position is byte-identical to the record at the old index.
C1_TrianglesPreserved ==
    (pc = "uniquified" /\ IndicesValid(oldMesh)) =>
        /\ Len(mesh.groups) = Len(oldMesh.groups)
        /\ \A g \in 1..Len(oldMesh.groups) :
              /\ mesh.groups[g].prim = oldMesh.groups[g].prim
              /\ Len(mesh.groups[g].indices) = Len(oldMesh.groups[g].indices)
              /\ \A k \in 1..Len(oldMesh.groups[g].indices) :
                    /\ mesh.groups[g].indices[k] \in 0..(mesh.nVertices - 1)
                    /\ RecordAt(mesh.vertexData, mesh.groups[g].indices[k])
                          = RecordAt(oldMesh.vertexData, oldMesh.groups[g].indices[k])

\* A call that compacted the buffer and changed the indices of a group.
C1_Witness ==
    /\ pc = "uniquified"
    /\ calls = 1
    /\ oldMesh.nVertices = 3
    /\ mesh.nVertices = 2
    /\ mesh.groups[1].indices # oldMesh.groups[1].indices
    /\ oldMesh.groups[1].indices = <<2, 0, 1>>

\* C2: uniquifyVertices is idempotent: a second call leaves the vertex count,
\* the vertex buffer and every group as the first call left them.
C2_Idempotent ==
    (pc = "uniquified" /\ calls >= 2) => mesh = oldMesh

\* Two calls were made, the first of which removed vertices.
C2_Witness ==
    /\ pc = "uniquified"
    /\ calls = 2
    /\ mesh.nVertices < inMesh.nVertices
    /\ mesh.nVertices >= 2

(***************************************************************************)
(* Spec: main, from the loaded model to the saved one.  The input models   *)
(* are built over the corners of the unit square of the plane z = 0.       *)
(***************************************************************************)
MaxStripIndices == 5
NumVertices == 5

FloatRecord(values) ==
    IF Len(values) = 0 THEN <<>>
    ELSE [b \in 1..(4 * Len(values)) |->
             BytesOfFloat(values[((b - 1) \div 4) + 1])[((b - 1) % 4) + 1]]

\* Vertex k (0-based) sits on corner k mod 4 of the square, so that vertex 4
\* is at the place of vertex 0.
SquareCorner(k) ==
    CASE k % 4 = 0 -> <<0, 0, 0>>
      [] k % 4 = 1 -> <<1, 0, 0>>
      [] k % 4 = 2 -> <<0, 1, 0>>
      [] k % 4 = 3 -> <<1, 1, 0>>

PositionDescription == PackedDescription(<< <<Position, Float3>> >>)
PositionTexDescription ==
    PackedDescription(<< <<Position, Float3>>, <<Texture0, Float2>> >>)

\* The vertex buffers: positions alone, and positions with texture
\* coordinates (u, v) = (x, y).
SquareVertices(desc) ==
    [k1 \in 1..NumVertices |->
        LET c == SquareCorner(k1 - 1)
        IN  IF desc = PositionDescription
            THEN FloatRecord(c)
            ELSE FloatRecord(<<c[1], c[2], c[3], c[1], c[2]>>)]

RunIndices(n) == [k \in 1..n |-> (k - 1) % NumVertices]

\* The index lists of the input groups, by primitive type; some are ones
\* the generators refuse.
InputGroupShapes ==
    { <<TriList, <<0, 1, 2>> >>,
      <<TriList, <<0, 1, 2, 2, 1, 3>> >>,
      <<TriList, <<2, 3, 4>> >>,
      <<TriList, <<0, 1, 4>> >>,
      <<TriList, <<0, 1, 2, 3>> >>,
      <<TriList, <<>> >>,
      <<TriFan, <<0, 1, 3, 2>> >>,
      <<TriStrip, <<0, 1>> >>,
      <<LineList, <<0, 1>> >> }
    \cup { <<TriStrip, RunIndices(n)>> : n \in 3..MaxStripIndices }

InputMaterials == <<"material0", "material1">>

OneGroupMeshes(desc, mat) ==
    { Mesh(desc, SquareVertices(desc),
           << PrimitiveGroup(shape[1], mat, shape[2]) >>) :
        shape \in InputGroupShapes }

TwoGroupMesh(desc) ==
    Mesh(desc, SquareVertices(desc),
         << PrimitiveGroup(TriList, 1, <<0, 1, 2>>),
            PrimitiveGroup(TriFan, 0, <<2, 1, 3>>) >>)

OneTriangleMesh(desc, mat) ==
    Mesh(desc, SquareVertices(desc), << PrimitiveGroup(TriList, mat, <<0, 1, 2>>) >>)

EmptyMesh(desc) == Mesh(desc, <<>>, <<>>)

\* Two descriptions of stride 16 with different attribute counts, and
\* meshes of one triangle over them.
WideDescription == PackedDescription(<< <<Position, Float4>> >>)
SplitDescription ==
    PackedDescription(<< <<Position, Float3>>, <<Texture0, Float1>> >>)

TriangleMesh(desc, mat, w) ==
    Mesh(desc,
         [k \in 1..3 |->
             LET c == SquareCorner(k - 1) IN FloatRecord(<<c[1], c[2], c[3], w>>)],
         << PrimitiveGroup(TriList, mat, <<0, 1, 2>>) >>)

\* A mesh of one triangle that comes with normals, all (1, 0, 0).
PositionNormalDescription ==
    PackedDescription(<< <<Position, Float3>>, <<Normal, Float3>> >>)

NormalTriangleMesh ==
    Mesh(PositionNormalDescription,
         [k \in 1..3 |->
             LET c == SquareCorner(k - 1)
             IN  FloatRecord(<<c[1], c[2], c[3], 1, 0, 0>>)],
         << PrimitiveGroup(TriList, 0, <<0, 1, 2>>) >>)

\* Meshes that come with normals (0, 0, 1) and texture coordinates, the
\* position first in the record or after the texture coordinates.
PositionFirstDescription ==
    PackedDescription(<< <<Position, Float3>>, <<Normal, Float3>>,
                         <<Texture0, Float2>> >>)
TextureFirstDescription ==
    PackedDescription(<< <<Texture0, Float2>>, <<Position, Float3>>,
                         <<Normal, Float3>> >>)

TexturedRecord(desc, k, uv) ==
    LET c == SquareCorner(k)
    IN  IF desc = PositionFirstDescription
        THEN FloatRecord(<<c[1], c[2], c[3], 0, 0, 1, uv[1], uv[2]>>)
        ELSE FloatRecord(<<uv[1], uv[2], c[1], c[2], c[3], 0, 0, 1>>)

\* Two triangles of the square whose texture coordinates mirror each other:
\* vertices 2 and 3 are the same record, vertices 1 and 4 are at the same
\* place with different texture coordinates (a seam).
SeamMesh(desc) ==
    Mesh(desc,
         << TexturedRecord(desc, 0, <<0, 0>>), TexturedRecord(desc, 1, <<1, 0>>),
            TexturedRecord(desc, 2, <<0, 1>>), TexturedRecord(desc, 2, <<0, 1>>),
            TexturedRecord(desc, 1, <<-1, 0>>), TexturedRecord(desc, 3, <<-1, 1>>) >>,
         << PrimitiveGroup(TriList, 0, <<0, 1, 2, 3, 4, 5>>) >>)

\* Two triangles that share vertices 1 and 2 and whose tangents are
\* (1, 0, 0) and (0, 1, 0).
OrthoMesh(desc) ==
    Mesh(desc,
         << TexturedRecord(desc, 0, <<0, 0>>), TexturedRecord(desc, 1, <<1, 0>>),
            TexturedRecord(desc, 2, <<0, 1>>), TexturedRecord(desc, 3, <<2, 0>>) >>,
         << PrimitiveGroup(TriList, 1, <<0, 1, 2, 2, 1, 3>>) >>)

InputModels ==
    { Model(InputMaterials, <<m>>) :
        m \in OneGroupMeshes(PositionDescription, 1)
              \cup OneGroupMeshes(PositionTexDescription, 0)
              \cup { TwoGroupMesh(PositionDescription),
                     TwoGroupMesh(PositionTexDescription),
                     EmptyMesh(PositionDescription),
                     NormalTriangleMesh,
                     SeamMesh(PositionFirstDescription),
                     SeamMesh(TextureFirstDescription),
                     OrthoMesh(PositionFirstDescription),
                     OrthoMesh(TextureFirstDescription),
                     \* a triangle list of four indices, with normals and
                     \* texture coordinates
                     Mesh(PositionFirstDescription,
                          OrthoMesh(PositionFirstDescription).vertexData,
                          << PrimitiveGroup(TriList, 1, <<0, 1, 2, 3>>) >>) } }
    \cup { Model(InputMaterials, <<>>),
           Model(InputMaterials,
                 << OneTriangleMesh(PositionDescription, 0),
                    OneTriangleMesh(PositionTexDescription, 1),
                    TwoGroupMesh(PositionDescription) >>),
           Model(InputMaterials,
                 << OneTriangleMesh(PositionTexDescription, 1),
                    TwoGroupMesh(PositionTexDescription) >>),
           Model(InputMaterials,
                 << TriangleMesh(SplitDescription, 0, 0),
                    TriangleMesh(WideDescription, 1, 1),
                    TriangleMesh(SplitDescription, 1, 2) >>),
           Model(InputMaterials,
                 << TriangleMesh(WideDescription, 0, 0),
                    TriangleMesh(SplitDescription, 1, 1),
                    TriangleMesh(WideDescription, 1, 2) >>) }

\* cos of the smoothing angle, doubled: 60 degrees (the default), 0 and 180.
SmoothAngles == {1, 2, -2}

\* The command lines, and whether the tool was built with TRISTRIP.  An
\* option that nothing reads on a command line is left at its default.
Options ==
    { o \in [genNormals : BOOLEAN, genTangents : BOOLEAN, weldVertices : BOOLEAN,
             mergeMeshes : BOOLEAN, uniquify : BOOLEAN, stripify : BOOLEAN,
             tristrip : BOOLEAN, cos2 : SmoothAngles] :
        /\ o.weldVertices => (o.genNormals \/ o.genTangents)
        /\ o.cos2 # 1 => o.genNormals
        /\ o.tristrip => o.stripify }


\* The state after parseCommandLine and LoadModel have succeeded.
Init ==
    /\ pc = "loaded"
    /\ model \in InputModels
    /\ opts \in Options
    /\ oldModel = NoModel
    /\ newModel = NoModel
    /\ faceArray = NoFaces
    /\ meshI = 0
    /\ NoDescState
    /\ NoMeshState

Generating == opts.genNormals \/ opts.genTangents

\* if (genNormals || genTangents): the new model and the copy of the
\* materials.
StartGeneration ==
    /\ pc = "loaded"
    /\ Generating
    /\ newModel' = Model(model.materials, <<>>)
    /\ meshI' = 1
    /\ pc' = "started"
    /\ UNCHANGED <<model, oldModel, opts, faceArray>>
    /\ UNCHANGED descVars
    /\ UNCHANGED meshVars

\* The head of the loop over the meshes.
AtLoopHead ==
    \/ pc = "started"
    \/ pc = "normals" /\ ~opts.genTangents
    \/ pc = "tangents"

\* What follows a generator call that returned `out`, the last of the loop
\* body when `last`: newModel->addMesh and the next mesh.
AfterGenerator(out, name, last) ==
    /\ mesh' = out.mesh
    /\ faceArray' = out.faces
    /\ pc' = CASE out.status = "ok" -> name
               [] out.status = "error" -> "failed"
               [] out.status = "crash" -> "crashed"
    /\ IF out.status = "ok" /\ last
       THEN /\ newModel' = [newModel EXCEPT !.meshes = Append(@, out.mesh)]
            /\ meshI' = meshI + 1
       ELSE UNCHANGED <<newModel, meshI>>

GenerateNormals ==
    /\ AtLoopHead
    /\ meshI <= Len(model.meshes)
    /\ opts.genNormals
    /\ \E out \in generateNormals(model.meshes[meshI], opts.cos2, opts.weldVertices) :
          /\ oldMesh' = model.meshes[meshI]
          /\ AfterGenerator(out, "normals", ~opts.genTangents)
    /\ UNCHANGED <<model, oldModel, opts>>
    /\ UNCHANGED <<ret, calls, inMesh>>
    /\ UNCHANGED descVars

GenerateTangents ==
    /\ opts.genTangents
    /\ \/ pc = "normals"
       \/ AtLoopHead /\ meshI <= Len(model.meshes) /\ ~opts.genNormals
    /\ LET input == IF pc = "normals" THEN mesh ELSE model.meshes[meshI]
       IN  \E out \in generateTangents(input, opts.weldVertices) :
              /\ oldMesh' = input
              /\ AfterGenerator(out, "tangents", TRUE)
    /\ UNCHANGED <<model, oldModel, opts>>
    /\ UNCHANGED <<ret, calls, inMesh>>
    /\ UNCHANGED descVars

\* The end of the loop: model = newModel.  The generators' `faces` arrays
\* are locals of the calls, out of reach from here on.
FinishGeneration ==
    /\ AtLoopHead
    /\ meshI > Len(model.meshes)
    /\ model' = newModel
    /\ faceArray' = NoFaces
    /\ pc' = "generated"
    /\ UNCHANGED <<oldModel, newModel, opts, meshI>>
    /\ UNCHANGED descVars
    /\ UNCHANGED meshVars

ReadyToMerge == pc = "generated" \/ (pc = "loaded" /\ ~Generating)

MergeModelMeshes ==
    /\ ReadyToMerge
    /\ opts.mergeMeshes
    /\ \E garbage \in GarbageAttributes :
          model' \in mergeModelMeshes(model, garbage)
    /\ oldModel' = model
    /\ pc' = "merged"
    /\ UNCHANGED <<newModel, opts, faceArray, meshI>>
    /\ UNCHANGED descVars
    /\ UNCHANGED meshVars

\* A mutant: the vertices are made unique before the meshes are merged.
UniquifyBeforeMerge == ReadyToMerge \/ pc = "merged"

ReadyToUniquify == pc = "merged" \/ (ReadyToMerge /\ ~opts.mergeMeshes)

\* One turn of the loop `if (uniquify) for (...) uniquifyVertices(*mesh)`;
\* the value returned is ignored by main.
UniquifyMesh ==
    /\ opts.uniquify
    /\ ReadyToUniquify \/ pc = "uniquified"
    /\ LET k == IF pc = "uniquified" THEN meshI ELSE 1
       IN  /\ k <= Len(model.meshes)
           /\ \E out \in uniquifyVertices(model.meshes[k]) :
                 /\ oldMesh' = model.meshes[k]
                 /\ mesh' = out.mesh
                 /\ ret' = out.ret
                 /\ model' = [model EXCEPT !.meshes[k] = out.mesh]
           /\ meshI' = k + 1
    /\ oldModel' = model
    /\ pc' = "uniquified"
    /\ UNCHANGED <<newModel, opts, faceArray>>
    /\ UNCHANGED <<calls, inMesh>>
    /\ UNCHANGED descVars

UniquifyDone ==
    \/ pc = "uniquified" /\ meshI > Len(model.meshes)
    \/ ReadyToUniquify /\ (~opts.uniquify \/ Len(model.meshes) = 0)

Stripifying == opts.stripify /\ opts.tristrip

\* One turn of the loop `if (stripify) for (...) convertToStrips(*mesh)` of
\* a build with TRISTRIP; the value returned is ignored by main.
ConvertToStrips ==
    /\ Stripifying
    /\ UniquifyDone \/ pc = "stripped"
    /\ LET k == IF pc = "stripped" THEN meshI ELSE 1
       IN  /\ k <= Len(model.meshes)
           /\ \E out \in convertToStrips(model.meshes[k]) :
                 /\ oldMesh' = model.meshes[k]
                 /\ mesh' = out.mesh
                 /\ ret' = out.ret
                 /\ model' = [model EXCEPT !.meshes[k] = out.mesh]
           /\ meshI' = k + 1
    /\ oldModel' = model
    /\ pc' = "stripped"
    /\ UNCHANGED <<newModel, opts, faceArray>>
    /\ UNCHANGED <<calls, inMesh>>
    /\ UNCHANGED descVars

StripDone ==
    \/ pc = "stripped" /\ meshI > Len(model.meshes)
    \/ UniquifyDone /\ (~Stripifying \/ Len(model.meshes) = 0)

\* The model is written, or the output file cannot be opened.
SaveModel ==
    /\ StripDone
    /\ \E good \in BOOLEAN : pc' = IF good THEN "saved" ELSE "failed"
    /\ UNCHANGED modelVars
    /\ UNCHANGED descVars
    /\ UNCHANGED meshVars

Next ==
    \/ StartGeneration
    \/ GenerateNormals
    \/ GenerateTangents
    \/ FinishGeneration
    \/ MergeModelMeshes
    \/ UniquifyMesh
    \/ ConvertToStrips
    \/ SaveModel

Spec == Init /\ [][Next]_vars

(***************************************************************************)
(* C10.  Face extraction in generateNormals: the faces are those of the    *)
(* groups in group order; a TriList of n indices gives the n/3 faces       *)
(* (i[3k], i[3k+1], i[3k+2]), a TriStrip the n-2 faces (i[j-2], i[j-1],    *)
(* i[j]) for even j >= 2 and (i[j-1], i[j-2], i[j]) for odd j, a TriFan    *)
(* the n-2 faces (i[0], i[j-1], i[j]); the strip (0,1,2,3,4) gives         *)
(* (0,1,2), (2,1,3), (2,3,4).                                              *)
(***************************************************************************)
ClaimedFaceCount(group) ==
    IF group.prim = TriList THEN Len(group.indices) \div 3
    ELSE Len(group.indices) - 2

\* The number of faces of the groups before group g.
ClaimedFacesBefore(groups, g) ==
    LET before[h \in 0..Len(groups)] ==
            IF h = 0 THEN 0 ELSE before[h - 1] + ClaimedFaceCount(groups[h])
    IN  before[g - 1]

\* The k-th face (k from 0) of a group.
ClaimedFace(group, k) ==
    LET ix(j) == group.indices[j + 1]
    IN  CASE group.prim = TriList -> <<ix(3 * k), ix(3 * k + 1), ix(3 * k + 2)>>
          [] group.prim = TriStrip ->
                LET j == k + 2
                IN  IF j % 2 = 0 THEN <<ix(j - 2), ix(j - 1), ix(j)>>
                    ELSE <<ix(j - 1), ix(j - 2), ix(j)>>
          [] group.prim = TriFan -> <<ix(0), ix(k + 1), ix(k + 2)>>

ExtractedFaces == [f \in 1..Len(faceArray) |-> faceArray[f].i]

C10_FaceExtraction ==
    pc = "normals" =>
        LET groups == oldMesh.groups
        IN  /\ Len(faceArray) = ClaimedFacesBefore(groups, Len(groups) + 1)
            /\ \A g \in 1..Len(groups) :
                  \A k \in 0..(ClaimedFaceCount(groups[g]) - 1) :
                     faceArray[ClaimedFacesBefore(groups, g) + k + 1].i
                         = ClaimedFace(groups[g], k)
            /\ (Len(groups) = 1 /\ groups[1].prim = TriStrip
                /\ groups[1].indices = <<0, 1, 2, 3, 4>>)
                  => ExtractedFaces = << <<0, 1, 2>>, <<2, 1, 3>>, <<2, 3, 4>> >>

C10_Witness ==
    /\ pc = "normals"
    /\ Len(oldMesh.groups) = 1
    /\ oldMesh.groups[1].prim = TriStrip
    /\ oldMesh.groups[1].indices = <<0, 1, 2, 3, 4>>
    /\ ExtractedFaces = << <<0, 1, 2>>, <<2, 1, 3>>, <<2, 3, 4>> >>

(***************************************************************************)
(* C3.  Index validity is preserved: when every index of the input mesh    *)
(* or meshes is below the owning mesh's vertex count, so is every index of *)
(* each mesh that uniquifyVertices, generateNormals, generateTangents or   *)
(* mergeModelMeshes leaves.                                                *)
(***************************************************************************)
AllIndicesValid(mdl) == \A k \in 1..Len(mdl.meshes) : IndicesValid(mdl.meshes[k])

C3_IndexValidityPreserved ==
    /\ (pc \in {"normals", "tangents", "uniquified"} /\ IndicesValid(oldMesh))
          => IndicesValid(mesh)
    /\ (pc = "merged" /\ AllIndicesValid(oldModel)) => AllIndicesValid(model)

\* uniquifyVertices has just removed vertices from a mesh that
\* mergeModelMeshes made of several meshes that generateNormals and
\* generateTangents had made.
C3_Witness ==
    /\ pc = "uniquified"
    /\ opts.genNormals /\ opts.genTangents /\ opts.mergeMeshes
    /\ Len(newModel.meshes) = 2
    /\ Len(oldModel.meshes) = 1
    /\ IndicesValid(oldMesh)
    /\ mesh.nVertices < oldMesh.nVertices
    /\ \E g \in 1..Len(oldMesh.groups) :
          \E k \in 1..Len(oldMesh.groups[g].indices) :
             oldMesh.groups[g].indices[k] >= newModel.meshes[1].nVertices

(***************************************************************************)
(* C4.  Material indices survive every transformation: the k-th group of   *)
(* the mesh generateNormals or generateTangents makes has the material     *)
(* index of the k-th input group; mergeModelMeshes gives each rebased      *)
(* group the material index of its source group and copies the material    *)
(* list in order; uniquifyVertices and convertToStrips leave the triangles *)
(* of a group under the material index they had.                           *)
(***************************************************************************)
SameMaterialsByPosition(new, old) ==
    /\ Len(new.groups) = Len(old.groups)
    /\ \A k \in 1..Len(new.groups) :
          new.groups[k].materialIndex = old.groups[k].materialIndex

\* Group gg of the merged mesh mm is group g of the source mesh src, its
\* indices moved by one offset onto records that are those of src.
IsRebasedGroup(mm, gg, src, g) ==
    /\ gg.prim = g.prim
    /\ Len(gg.indices) = Len(g.indices)
    /\ \E offset \in 0..mm.nVertices :
          \A k \in 1..Len(g.indices) :
             /\ gg.indices[k] = g.indices[k] + offset
             /\ gg.indices[k] < Len(mm.vertexData)
             /\ RecordAt(mm.vertexData, gg.indices[k])
                    = RecordAt(src.vertexData, g.indices[k])

MergeKeepsMaterials(new, old) ==
    /\ new.materials = old.materials
    /\ \A s \in 1..Len(old.meshes) :
          \A g \in 1..Len(old.meshes[s].groups) :
             Len(old.meshes[s].groups[g].indices) > 0 =>
                \E m \in 1..Len(new.meshes) :
                   \E h \in 1..Len(new.meshes[m].groups) :
                      /\ IsRebasedGroup(new.meshes[m], new.meshes[m].groups[h],
                                        old.meshes[s], old.meshes[s].groups[g])
                      /\ new.meshes[m].groups[h].materialIndex
                             = old.meshes[s].groups[g].materialIndex
    /\ \A m \in 1..Len(new.meshes) :
          \A h \in 1..Len(new.meshes[m].groups) :
             \E s \in 1..Len(old.meshes) :
                \E g \in 1..Len(old.meshes[s].groups) :
                   /\ old.meshes[s].desc = new.meshes[m].desc
                   /\ IsRebasedGroup(new.meshes[m], new.meshes[m].groups[h],
                                     old.meshes[s], old.meshes[s].groups[g])
                   /\ new.meshes[m].groups[h].materialIndex
                          = old.meshes[s].groups[g].materialIndex

\* Every group of `new` is made of indices of one group of `old` with the
\* same material index, the groups of `new` following the order of `old`.
StripsKeepMaterials(new, old) ==
    \E from \in [1..Len(new.groups) -> 1..Len(old.groups)] :
       /\ \A h, k \in 1..Len(new.groups) : h <= k => from[h] <= from[k]
       /\ \A k \in 1..Len(new.groups) :
             /\ new.groups[k].materialIndex = old.groups[from[k]].materialIndex
             /\ \A x \in 1..Len(new.groups[k].indices) :
                   \E y \in 1..Len(old.groups[from[k]].indices) :
                      new.groups[k].indices[x] = old.groups[from[k]].indices[y]

C4_MaterialIndicesSurvive ==
    /\ pc \in {"normals", "tangents", "uniquified"}
          => SameMaterialsByPosition(mesh, oldMesh)
    /\ (pc = "merged" /\ AllIndicesValid(oldModel))
          => MergeKeepsMaterials(model, oldModel)
    /\ pc = "stripped" => StripsKeepMaterials(mesh, oldMesh)

\* convertToStrips has just turned into a strip a group of a mesh of three
\* groups, of different materials, that went through the generation of
\* normals, the merge and the removal of duplicate vertices.
C4_Witness ==
    /\ pc = "stripped"
    /\ opts.genNormals /\ opts.mergeMeshes /\ opts.uniquify
    /\ Len(oldMesh.groups) = 3
    /\ oldMesh.groups[1].materialIndex # oldMesh.groups[2].materialIndex
    /\ Len(mesh.groups) = 3
    /\ \E g \in 1..3 : mesh.groups[g].prim = TriStrip
    /\ ret = TRUE

(***************************************************************************)
(* C5.  mergeModelMeshes leaves exactly one mesh for each distinct vertex  *)
(* description of the input model: two input meshes go into the same       *)
(* output mesh if and only if their descriptions are equal, also when      *)
(* descriptions share a stride and differ in attribute count.              *)
(***************************************************************************)
DescriptionsOf(mdl) == { mdl.meshes[k].desc : k \in 1..Len(mdl.meshes) }

C5_OneMeshPerDescription ==
    pc = "merged" =>
        /\ Len(model.meshes) = Cardinality(DescriptionsOf(oldModel))
        /\ DescriptionsOf(model) = DescriptionsOf(oldModel)
        /\ \A h, k \in 1..Len(model.meshes) :
              h # k => ~DescriptionEq(model.meshes[h].desc, model.meshes[k].desc)

(***************************************************************************)
(* C6.  mergeModelMeshes preserves geometry: the total triangle count is   *)
(* unchanged; the vertex count of a merged mesh is the sum of the vertex   *)
(* counts of the source meshes of its description; every source group with *)
(* an index is found in a merged mesh with the same primitive type and     *)
(* index count, its indices moved by the number of vertices copied before  *)
(* its mesh, onto records that are byte for byte the source records.       *)
(***************************************************************************)
TriangleCount(group) ==
    CASE group.prim = TriList -> Len(group.indices) \div 3
      [] group.prim \in {TriStrip, TriFan} ->
            IF Len(group.indices) >= 3 THEN Len(group.indices) - 2 ELSE 0
      [] OTHER -> 0

MeshTriangles(m) ==
    LET upTo[g \in 0..Len(m.groups)] ==
            IF g = 0 THEN 0 ELSE upTo[g - 1] + TriangleCount(m.groups[g])
    IN  upTo[Len(m.groups)]

ModelTriangles(mdl) ==
    LET upTo[k \in 0..Len(mdl.meshes)] ==
            IF k = 0 THEN 0 ELSE upTo[k - 1] + MeshTriangles(mdl.meshes[k])
    IN  upTo[Len(mdl.meshes)]

\* The vertices of the meshes of `mdl` whose description is desc.
VerticesOfDescription(mdl, desc) ==
    LET upTo[k \in 0..Len(mdl.meshes)] ==
            IF k = 0 THEN 0
            ELSE upTo[k - 1] + (IF DescriptionEq(mdl.meshes[k].desc, desc)
                                THEN mdl.meshes[k].nVertices ELSE 0)
    IN  upTo[Len(mdl.meshes)]

C6_MergePreservesGeometry ==
    pc = "merged" =>
        /\ ModelTriangles(model) = ModelTriangles(oldModel)
        /\ \A m \in 1..Len(model.meshes) :
              model.meshes[m].nVertices
                  = VerticesOfDescription(oldModel, model.meshes[m].desc)
        /\ \A s \in 1..Len(oldModel.meshes) :
              \A g \in 1..Len(oldModel.meshes[s].groups) :
                 Len(oldModel.meshes[s].groups[g].indices) > 0 =>
                    \E m \in 1..Len(model.meshes) :
                       \E h \in 1..Len(model.meshes[m].groups) :
                          IsRebasedGroup(model.meshes[m], model.meshes[m].groups[h],
                                         oldModel.meshes[s],
                                         oldModel.meshes[s].groups[g])

(***************************************************************************)
(* C11.  On success generateNormals returns a mesh of 3 * |faces|          *)
(* vertices in which corner k of face f is vertex 3f + k; every attribute  *)
(* present in both the old and the new description is a copy of the one   *)
(* of the original record at index i[k]; there is one TriList group per    *)
(* input group, in input order, the k-th holding 3 * (face count of input  *)
(* group k) sequential indices that start where those of the group before  *)
(* end, 3 * |faces| indices in all.                                        *)
(***************************************************************************)
AttributeBytes(record, attribute) ==
    SubSeq(record, attribute.offset + 1,
           attribute.offset + getVertexAttributeSize(attribute.format))

\* The pairs of an attribute of `old` and the attribute of `new` of the
\* same semantic and format.
InBothDescriptions(old, new) ==
    { <<a, b>> \in (1..nAttributes(old)) \X (1..nAttributes(new)) :
        /\ old.attributes[a].semantic = new.attributes[b].semantic
        /\ old.attributes[a].format = new.attributes[b].format }

\* Corner k (from 1) of face f (from 1) is vertex 3(f-1) + (k-1), and the
\* attributes of `semantics` found in both descriptions are copies.
CornersCopied(semantics) ==
    \A f \in 1..Len(faceArray) : \A k \in 1..3 :
       \A ab \in InBothDescriptions(oldMesh.desc, mesh.desc) :
          oldMesh.desc.attributes[ab[1]].semantic \in semantics =>
             AttributeBytes(RecordAt(mesh.vertexData, 3 * (f - 1) + (k - 1)),
                            mesh.desc.attributes[ab[2]])
                 = AttributeBytes(RecordAt(oldMesh.vertexData, faceArray[f].i[k]),
                                  oldMesh.desc.attributes[ab[1]])

SequentialGroups ==
    /\ Len(mesh.groups) = Len(oldMesh.groups)
    /\ \A g \in 1..Len(mesh.groups) :
          LET first == 3 * ClaimedFacesBefore(oldMesh.groups, g)
              count == 3 * ClaimedFaceCount(oldMesh.groups[g])
          IN  /\ mesh.groups[g].prim = TriList
              /\ mesh.groups[g].materialIndex = oldMesh.groups[g].materialIndex
              /\ mesh.groups[g].indices = [x \in 1..count |-> first + x - 1]
    /\ 3 * ClaimedFacesBefore(oldMesh.groups, Len(oldMesh.groups) + 1)
           = 3 * Len(faceArray)

GeneratedShape ==
    /\ mesh.nVertices = 3 * Len(faceArray)
    /\ Len(mesh.vertexData) = 3 * Len(faceArray)
    /\ SequentialGroups

AllSemantics == {Position, Color0, Normal, Tangent, Texture0}

\* The claim as it is written: also a normal the input already has is a copy.
C11_AllSharedAttributesCopied ==
    pc = "normals" => (GeneratedShape /\ CornersCopied(AllSemantics))

\* C11 as amended: the attributes other than the normal are copies; the
\* normal slot holds the generated normal also when the input has normals.
C11_GeneratedNormalsMesh ==
    pc = "normals" => (GeneratedShape /\ CornersCopied(AllSemantics \ {Normal}))

\* generateNormals has made a mesh out of one that came with normals: the
\* positions are copies, the normal of the first corner is not.
C11_Witness ==
    /\ pc = "normals"
    /\ getAttribute(oldMesh.desc, Normal).format = Float3
    /\ mesh.desc = oldMesh.desc
    /\ mesh.nVertices = 3
    /\ Len(mesh.groups) = 1
    /\ mesh.groups[1].indices = <<0, 1, 2>>
    /\ AttributeBytes(RecordAt(mesh.vertexData, 0), getAttribute(mesh.desc, Position))
           = AttributeBytes(RecordAt(oldMesh.vertexData, 0),
                            getAttribute(oldMesh.desc, Position))
    /\ AttributeBytes(RecordAt(mesh.vertexData, 0), getAttribute(mesh.desc, Normal))
           # AttributeBytes(RecordAt(oldMesh.vertexData, 0),
                            getAttribute(oldMesh.desc, Normal))

(***************************************************************************)
(* C12.  Tie policy of the smoothing of normals: for a corner of face f, a *)
(* face g # f of the adjacency of the corner's point whose normal has with *)
(* the normal of f a dot product exactly equal to the threshold            *)
(* cos(theta) is included in the sum.                                      *)
(***************************************************************************)
\* The vector written for corner k of face f in the slot of `semantic`.
WrittenVector(semantic, f, k) ==
    getVertex(mesh.vertexData, getAttribute(mesh.desc, semantic).offset,
              mesh.desc.stride, 3 * (f - 1) + (k - 1))

\* The corners <<g, j>> of the faces that have the point of corner k of f.
CornersOfPoint(f, k) ==
    { gj \in (1..Len(faceArray)) \X (1..3) :
        faceArray[gj[1]].vi[gj[2]] = faceArray[f].vi[k] }

\* The sum of the face vectors over a set of corners, a face counting once
\* for each of its corners in the set.
RECURSIVE VectorSum(_)
VectorSum(corners) ==
    IF corners = {} THEN ZeroVector
    ELSE LET gj == CHOOSE gj \in corners : TRUE
         IN  VecAdd(faceArray[gj[1]].normal, VectorSum(corners \ {gj}))

UnitOrFallback(v) == IF v = ZeroVector THEN <<1, 0, 0>> ELSE normalize(v)

FaceDot2(f, g) == 2 * Dot(faceArray[f].normal, faceArray[g].normal)

\* The corners whose face makes with f an angle below the threshold, or at
\* the threshold when ties count.
SmoothedCorners(f, k, threshold2, ties) ==
    { gj \in CornersOfPoint(f, k) :
        \/ gj[1] = f
        \/ FaceDot2(f, gj[1]) > threshold2
        \/ ties /\ FaceDot2(f, gj[1]) = threshold2 }

HasTie(f, k, threshold2) ==
    \E gj \in CornersOfPoint(f, k) :
       gj[1] # f /\ FaceDot2(f, gj[1]) = threshold2

\* The claim as it is written: where there is a tie, the tied face is in
\* the sum.
C12_TiesIncluded ==
    pc = "normals" =>
        \A f \in 1..Len(faceArray) : \A k \in 1..3 :
           HasTie(f, k, opts.cos2) =>
              WrittenVector(Normal, f, k)
                  = UnitOrFallback(VectorSum(SmoothedCorners(f, k, opts.cos2, TRUE)))

\* C12 as amended: a face g # f is in the sum if and only if the dot product
\* is strictly greater than the threshold; a tied face is left out.
C12_TiesExcluded ==
    pc = "normals" =>
        \A f \in 1..Len(faceArray) : \A k \in 1..3 :
           WrittenVector(Normal, f, k)
               = UnitOrFallback(VectorSum(SmoothedCorners(f, k, opts.cos2, FALSE)))

\* A corner has got a normal that the tied face of its point would have
\* changed.
C12_Witness ==
    /\ pc = "normals"
    /\ \E f \in 1..Len(faceArray) : \E k \in 1..3 :
          /\ HasTie(f, k, opts.cos2)
          /\ WrittenVector(Normal, f, k) = faceArray[f].normal
          /\ UnitOrFallback(VectorSum(SmoothedCorners(f, k, opts.cos2, TRUE)))
                 # faceArray[f].normal

(***************************************************************************)
(* C13.  With the smoothing angle pi, the normal of every corner is the    *)
(* normalised sum of the normals of all the faces that share the corner's  *)
(* point, those of exactly opposite normal included.                       *)
(***************************************************************************)
\* The threshold of the angle pi is opts.cos2 = -2 (cos(pi) = -1, doubled).
\* The claim as it is written.
C13_FullySmoothed ==
    (pc = "normals" /\ opts.cos2 = -2) =>
        \A f \in 1..Len(faceArray) : \A k \in 1..3 :
           WrittenVector(Normal, f, k)
               = UnitOrFallback(VectorSum(CornersOfPoint(f, k)))

\* C13 as amended: all the faces that share the point but those of exactly
\* opposite normal (dot product -1, which is not greater than cos(pi)).
C13_SmoothedButOpposite ==
    (pc = "normals" /\ opts.cos2 = -2) =>
        \A f \in 1..Len(faceArray) : \A k \in 1..3 :
           WrittenVector(Normal, f, k)
               = UnitOrFallback(VectorSum(
                     { gj \in CornersOfPoint(f, k) :
                         gj[1] = f \/ Dot(faceArray[f].normal,
                                          faceArray[gj[1]].normal) # -1 }))

\* With the angle pi, a corner whose point is shared with a face of the same
\* normal and with one of the opposite normal has the normal of its face.
C13_Witness ==
    /\ pc = "normals"
    /\ opts.cos2 = -2
    /\ \E f \in 1..Len(faceArray) : \E k \in 1..3 :
          /\ \E gj \in CornersOfPoint(f, k) :
                gj[1] # f /\ faceArray[gj[1]].normal = faceArray[f].normal
          /\ \E gj \in CornersOfPoint(f, k) :
                Dot(faceArray[f].normal, faceArray[gj[1]].normal) = -1
          /\ faceArray[f].normal # ZeroVector
          /\ WrittenVector(Normal, f, k) = faceArray[f].normal

(***************************************************************************)
(* C14.  Zero fallback, in generateNormals and in generateTangents: a      *)
(* corner whose sum of included face vectors is the zero vector receives   *)
(* (1, 0, 0), every other corner the sum scaled to unit length; no corner  *)
(* is written with the zero vector.                                        *)
(***************************************************************************)
\* The bytes of the slot of `semantic` of corner k of face f.
WrittenBytes(semantic, f, k) ==
    AttributeBytes(RecordAt(mesh.vertexData, 3 * (f - 1) + (k - 1)),
                   getAttribute(mesh.desc, semantic))

ZeroVectorBytes ==
    { BytesOfVector(ZeroVector) }
        \cup { [b \in 1..12 |-> IF b \in minus THEN 128 ELSE 0] :
                 minus \in SUBSET {4, 8, 12} }

FallbackRule(semantic, threshold2) ==
    \A f \in 1..Len(faceArray) : \A k \in 1..3 :
       /\ WrittenBytes(semantic, f, k) \notin ZeroVectorBytes
       /\ LET sum == VectorSum(SmoothedCorners(f, k, threshold2, FALSE))
              written == WrittenVector(semantic, f, k)
          IN  /\ sum = ZeroVector => written = <<1, 0, 0>>
              /\ sum # ZeroVector =>
                    /\ squaredNorm(written) = 1
                    /\ written = normalize(sum)

C14_ZeroFallback ==
    /\ pc = "normals" => FallbackRule(Normal, opts.cos2)
    /\ pc = "tangents" => FallbackRule(Tangent, 0)

\* generateTangents has met a face without a tangent in a mesh in which
\* generateNormals had met a face without a normal: the first corner has
\* (1, 0, 0) for its normal and for its tangent.
C14_Witness ==
    /\ pc = "tangents"
    /\ opts.genNormals
    /\ Len(faceArray) = 1
    /\ faceArray[1].normal = ZeroVector
    /\ WrittenVector(Tangent, 1, 1) = <<1, 0, 0>>
    /\ WrittenVector(Normal, 1, 1) = <<1, 0, 0>>

(***************************************************************************)
(* C15.  In generateTangents with welding, two face corners receive the    *)
(* same point identity only if the Position values and the Texture0 values *)
(* of their records match, whatever the vertex description, also when      *)
(* Position is not at offset 0: corners at the same place with different   *)
(* texture coordinates are never merged.                                   *)
(***************************************************************************)
PositionOf(m, index) ==
    getVertex(m.vertexData, getAttribute(m.desc, Position).offset,
              m.desc.stride, index)

TexCoordOf(m, index) ==
    getTexCoord(m.vertexData, getAttribute(m.desc, Texture0).offset,
                m.desc.stride, index)

C15_WeldKeepsSeams ==
    (pc = "tangents" /\ opts.weldVertices) =>
        \A f, g \in 1..Len(faceArray) : \A j, k \in 1..3 :
           faceArray[f].vi[j] = faceArray[g].vi[k] =>
              /\ PositionOf(oldMesh, faceArray[f].i[j])
                     = PositionOf(oldMesh, faceArray[g].i[k])
              /\ TexCoordOf(oldMesh, faceArray[f].i[j])
                     = TexCoordOf(oldMesh, faceArray[g].i[k])

(***************************************************************************)
(* C16.  The smoothing of tangents includes a neighbouring face g of a     *)
(* corner of face f in the corner's sum if and only if the tangent of g    *)
(* has a non-negative dot product with the tangent of f: a neighbour of    *)
(* exactly orthogonal tangent (dot product 0) is included.                 *)
(***************************************************************************)
\* v is the unit vector of the direction of sum.
IsUnitOf(v, sum) ==
    /\ squaredNorm(v) = 1
    /\ Cross(v, sum) = ZeroVector
    /\ Dot(v, sum) > 0

IsAverageOf(v, sum) == IF sum = ZeroVector THEN v = <<1, 0, 0>> ELSE IsUnitOf(v, sum)

\* The claim as it is written.
C16_NonNegativeIncluded ==
    pc = "tangents" =>
        \A f \in 1..Len(faceArray) : \A k \in 1..3 :
           IsAverageOf(WrittenVector(Tangent, f, k),
                       VectorSum(SmoothedCorners(f, k, 0, TRUE)))

\* C16 as amended: g is included if and only if the dot product is strictly
\* positive; a neighbour of orthogonal tangent is left out.
C16_PositiveIncluded ==
    pc = "tangents" =>
        \A f \in 1..Len(faceArray) : \A k \in 1..3 :
           IsAverageOf(WrittenVector(Tangent, f, k),
                       VectorSum({ gj \in CornersOfPoint(f, k) :
                                     \/ gj[1] = f
                                     \/ Dot(faceArray[f].normal,
                                            faceArray[gj[1]].normal) > 0 }))

\* A corner whose point is shared with a face of orthogonal tangent has the
\* tangent of its own face.
C16_Witness ==
    /\ pc = "tangents"
    /\ \E f \in 1..Len(faceArray) : \E k \in 1..3 :
          /\ faceArray[f].normal # ZeroVector
          /\ \E gj \in CornersOfPoint(f, k) :
                /\ faceArray[gj[1]].normal # ZeroVector
                /\ Dot(faceArray[f].normal, faceArray[gj[1]].normal) = 0
          /\ WrittenVector(Tangent, f, k) = faceArray[f].normal

(***************************************************************************)
(* C17.  Inverting the v texture coordinate of every vertex (positions, u  *)
(* and indices unchanged) flips the sign of the tangent of every face      *)
(* corner: the face tangent                                                *)
(* T = (t2 (p1 - p0) - t1 (p2 - p0)) / (s1 t2 - s2 t1), and so each        *)
(* smoothed corner tangent, becomes its negation.                          *)
(***************************************************************************)
\* The mesh with -v for v in every record.
InvertV(m) ==
    LET at == getAttribute(m.desc, Texture0).offset + 4
    IN  [m EXCEPT !.vertexData =
            [x \in 1..Len(m.vertexData) |->
                [b \in 1..m.desc.stride |->
                    IF at < b /\ b <= at + 4
                    THEN BytesOfFloat(-FloatOfBytes(SubSeq(m.vertexData[x],
                                                           at + 1, at + 4)))[b - at]
                    ELSE m.vertexData[x][b]]]]

\* The tangent the loop of lines 1043-1062 gives face f of the mesh m.
FaceTangentOf(m, f) ==
    FaceTangent(m.vertexData, getAttribute(m.desc, Position).offset,
                getAttribute(m.desc, Texture0).offset, m.desc.stride,
                faceArray[f].i)

\* The corners of the faces: <<face, corner>>.
Corners == (1..Len(faceArray)) \X (1..3)

CornerI(c) == faceArray[c[1]].i[c[2]]
CornerVi(c) == faceArray[c[1]].vi[c[2]]

\* The corners of the faces faceI of the mesh m that
\* PointTexCoordEquivalencePredicate, as generateTangents sets it up at
\* lines 1078-1083, holds equivalent: a table over the corners in the order
\* of the face array.
CornersEquivalent(m, faceI, garbage) ==
    LET posOffset == getAttribute(m.desc, Position).offset
        texCoordOffset == getAttribute(m.desc, Texture0).offset
        n == 3 * Len(faceI)
        index(c) == faceI[((c - 1) \div 3) + 1][((c - 1) % 3) + 1]
        key == SubSeq([c \in 1..n |->
                          PredicateKey(m.vertexData, m.desc.stride,
                                       Vertex(index(c), posOffset + m.desc.stride * index(c)),
                                       posOffset, texCoordOffset, TRUE, garbage)],
                      1, n)
    IN  [c \in 1..n |-> [d \in 1..n |-> KeyEquivalent(key[c], key[d], 1, 100000)]]

\* The mesh main hands generateTangents at the next call.
TangentsInput == IF pc = "normals" THEN mesh ELSE model.meshes[meshI]

\* main is about to hand generateTangents, with --weld, a mesh whose faces
\* it will join.
TangentsWillWeld ==
    /\ opts.genTangents
    /\ opts.weldVertices
    /\ \/ pc = "normals"
       \/ AtLoopHead /\ meshI <= Len(model.meshes) /\ ~opts.genNormals
    /\ HasAttribute(TangentsInput.desc, Position, Float3)
    /\ HasAttribute(TangentsInput.desc, Normal, Float3)
    /\ HasAttribute(TangentsInput.desc, Texture0, Float2)
    /\ \A g \in 1..Len(TangentsInput.groups) : TangentsInput.groups[g].prim = TriList

\* With v inverted the welding predicate holds of the same corners.
SameCornersEquivalent ==
    LET faceI == TangentsFaceIndices(TangentsInput.groups, 1, <<>>)
        p == [withTex |-> TRUE,
              posOffset |-> getAttribute(TangentsInput.desc, Position).offset,
              texCoordOffset |-> getAttribute(TangentsInput.desc, Texture0).offset]
        floats == IF PredicateReadsBeyond(faceI, TangentsInput.vertexData,
                                          TangentsInput.desc, p)
                  THEN GarbageFloats ELSE {0}
    IN  \A garbage \in floats :
           CornersEquivalent(InvertV(TangentsInput), faceI, garbage)
               = CornersEquivalent(TangentsInput, faceI, garbage)

\* With v inverted the tangents generateTangents writes for the corners
\* (lines 1123-1135), once they are joined into the same points, are `sign`
\* times the ones it wrote.
CornerTangentsAfterInversion(sign) ==
    LET inverted == InvertV(oldMesh)
        nFaces == Len(faceArray)
        vi == [f \in 1..nFaces |-> faceArray[f].vi]
        tangents == SubSeq([f \in 1..nFaces |-> FaceTangentOf(inverted, f)], 1, nFaces)
        vertexFaces == CornerFaces(vi)
    IN  \A f \in 1..nFaces : \A k \in 1..3 :
           averageFaceVectors(tangents, f, vertexFaces[f][k], 0)
               = VecScale(sign, WrittenVector(Tangent, f, k))

\* The claim as it is written.
C17_InvertedVFlipsTangent ==
    pc = "tangents" =>
        /\ \A f \in 1..Len(faceArray) :
              FaceTangentOf(InvertV(oldMesh), f) = VecScale(-1, faceArray[f].normal)
        /\ CornerTangentsAfterInversion(-1)

\* C17 as amended: the face tangents are unchanged, numerator and
\* denominator changing sign together, and so are the corner tangents.
C17_InvertedVKeepsTangent ==
    /\ TangentsWillWeld => SameCornersEquivalent
    /\ pc = "tangents" =>
          /\ \A f \in 1..Len(faceArray) :
                FaceTangentOf(InvertV(oldMesh), f) = faceArray[f].normal
          /\ CornerTangentsAfterInversion(1)

\* generateTangents has given a face whose corners differ in v the tangent
\* (-1, 0, 0), which is also the tangent of the face once v is inverted.
C17_Witness ==
    /\ pc = "tangents"
    /\ \E f \in 1..Len(faceArray) :
          /\ faceArray[f].normal = <<-1, 0, 0>>
          /\ TexCoordOf(oldMesh, faceArray[f].i[1])[2]
                 # TexCoordOf(oldMesh, faceArray[f].i[2])[2]
          /\ TexCoordOf(InvertV(oldMesh), faceArray[f].i[1])[2]
                 = -TexCoordOf(oldMesh, faceArray[f].i[1])[2]
          /\ TexCoordOf(oldMesh, faceArray[f].i[1])[2] # 0
          /\ FaceTangentOf(InvertV(oldMesh), f) = <<-1, 0, 0>>
          /\ WrittenVector(Tangent, f, 1) = <<-1, 0, 0>>

(***************************************************************************)
(* C18.  The order of the pipeline is fixed: for each mesh the normals are *)
(* generated before the tangents and generateTangents is given the mesh    *)
(* that generateNormals returned; the meshes are merged only after all of  *)
(* them went through the generators; the vertices are made unique only     *)
(* after the merge, the strips are made only after that, and the model is  *)
(* written only after every requested stage has run.                       *)
(***************************************************************************)
\* Where main stands when the stage before the merge is over, and when the
\* merge is over.
GenerationOver == pc = (IF opts.genNormals \/ opts.genTangents
                        THEN "generated" ELSE "loaded")

MergeOver == IF opts.mergeMeshes THEN pc = "merged" ELSE GenerationOver

DedupOver ==
    IF opts.uniquify /\ Len(model.meshes) > 0
    THEN pc = "uniquified" /\ meshI = Len(model.meshes) + 1
    ELSE MergeOver

StripsOver ==
    IF opts.stripify /\ opts.tristrip /\ Len(model.meshes) > 0
    THEN pc = "stripped" /\ meshI = Len(model.meshes) + 1
    ELSE DedupOver

\* The step to each stage is taken from the end of the stage before it.
PipelineStep ==
    /\ pc' = "normals" =>
          /\ opts.genNormals
          /\ pc \in {"started", "normals", "tangents"}
          /\ pc = "normals" => ~opts.genTangents
          /\ oldMesh' = model.meshes[meshI]
    /\ pc' = "tangents" =>
          /\ opts.genTangents
          /\ IF opts.genNormals
             THEN pc = "normals" /\ oldMesh' = mesh
             ELSE pc \in {"started", "tangents"} /\ oldMesh' = model.meshes[meshI]
    /\ pc' = "generated" =>
          /\ pc \in {"started", "normals", "tangents"}
          /\ pc = "normals" => ~opts.genTangents
          /\ Len(newModel.meshes) = Len(model.meshes)
    /\ pc' = "merged" => opts.mergeMeshes /\ GenerationOver
    /\ pc' = "uniquified" =>
          /\ opts.uniquify
          /\ IF pc = "uniquified"
             THEN meshI' = meshI + 1 /\ oldMesh' = model.meshes[meshI]
             ELSE MergeOver /\ meshI' = 2 /\ oldMesh' = model.meshes[1]
    /\ pc' = "stripped" =>
          /\ opts.stripify
          /\ IF pc = "stripped"
             THEN meshI' = meshI + 1 /\ oldMesh' = model.meshes[meshI]
             ELSE DedupOver /\ meshI' = 2 /\ oldMesh' = model.meshes[1]
    /\ pc' = "saved" => StripsOver /\ model' = model

C18_PipelineOrder == [][PipelineStep]_vars

\* A model of two meshes has been through every stage and is written.
C18_Witness ==
    /\ pc = "saved"
    /\ opts.genNormals /\ opts.genTangents /\ opts.mergeMeshes
    /\ opts.uniquify /\ opts.stripify /\ opts.tristrip
    /\ Len(newModel.meshes) = 2
    /\ Len(oldModel.meshes) = 1
    /\ Len(model.meshes) = 1

(***************************************************************************)
(* C19.  Any failure ends the run with exit code 1 and nothing written:    *)
(* when a generator, uniquifyVertices or convertToStrips reports failure,  *)
(* main returns 1 and no model is written; main returns 0 only when every  *)
(* requested stage succeeded.                                              *)
(***************************************************************************)
\* main stands after a call of uniquifyVertices or convertToStrips that
\* returned false.
StageReportedFailure == pc \in {"uniquified", "stripped"} /\ ret = FALSE

\* The claim as it is written: the only step after a reported failure is the
\* return of 1, and nothing follows it.
C19_FailureEndsRun ==
    [][/\ StageReportedFailure => pc' = "failed"
       /\ pc = "failed" => FALSE
       /\ pc' = "saved" => ~StageReportedFailure]_vars

(***************************************************************************)
(* C20.  generateNormals fails, returning no mesh and leaving its input    *)
(* unchanged, whenever Position is absent or not Float3, a TriList has     *)
(* fewer than 3 indices or a number of indices that is no multiple of 3, a *)
(* TriStrip or TriFan has fewer than 3 indices, or a group is of another   *)
(* primitive kind; in every other case it returns a mesh.                  *)
(***************************************************************************)
HasFloat3Position(desc) ==
    \E a \in 1..Len(desc.attributes) :
       /\ desc.attributes[a].semantic = Position
       /\ desc.attributes[a].format = Float3
       /\ \A b \in 1..(a - 1) : desc.attributes[b].semantic # Position

BadTriangleGroup(group) ==
    \/ group.prim = TriList /\ (Len(group.indices) < 3 \/ Len(group.indices) % 3 # 0)
    \/ group.prim \in {TriStrip, TriFan} /\ Len(group.indices) < 3
    \/ group.prim \notin {TriList, TriStrip, TriFan}

NormalsMustFail(m) ==
    \/ ~HasFloat3Position(m.desc)
    \/ \E g \in 1..Len(m.groups) : BadTriangleGroup(m.groups[g])

\* The step is a call of generateNormals by main.
NormalsCalled ==
    /\ opts.genNormals
    /\ pc \in {"started", "normals", "tangents"}
    /\ pc = "normals" => ~opts.genTangents
    /\ pc' \in {"normals", "failed", "crashed"}

NormalsFailExactly ==
    NormalsCalled =>
        IF NormalsMustFail(model.meshes[meshI])
        THEN pc' = "failed" /\ mesh' = NoMesh /\ model' = model
        ELSE pc' = "normals" /\ mesh' # NoMesh /\ model' = model

C20_NormalsFailExactly == [][NormalsFailExactly]_vars

(***************************************************************************)
(* C21.  generateTangents fails, returning no mesh, whenever Position is   *)
(* not Float3, Normal is absent or not Float3, Texture0 is absent or not   *)
(* Float2, a group is no TriList, or a TriList has a number of indices     *)
(* that is not a positive multiple of three: it never produces a mesh from *)
(* such an input.                                                          *)
(***************************************************************************)
TangentsMustFail(m) ==
    \/ ~HasAttribute(m.desc, Position, Float3)
    \/ ~HasAttribute(m.desc, Normal, Float3)
    \/ ~HasAttribute(m.desc, Texture0, Float2)
    \/ \E g \in 1..Len(m.groups) :
          \/ m.groups[g].prim # TriList
          \/ Len(m.groups[g].indices) < 3
          \/ Len(m.groups[g].indices) % 3 # 0

\* The step is a call of generateTangents by main.
TangentsCalled ==
    /\ opts.genTangents
    /\ IF opts.genNormals THEN pc = "normals" ELSE pc \in {"started", "tangents"}
    /\ pc' \in {"tangents", "failed", "crashed"}

C21_TangentsRefuseBadInput ==
    [][TangentsCalled /\ TangentsMustFail(TangentsInput) => pc' # "tangents"]_vars

(***************************************************************************)
(* C22.  uniquifyVertices on a mesh without vertices, or on a mesh no two  *)
(* records of which are byte-identical, is a no-op that is not reported as *)
(* an error: the vertex buffer, the vertex count and the indices of every  *)
(* group are unchanged and the call reports success.                       *)
(***************************************************************************)
AllRecordsDistinct(m) ==
    \A a, b \in 1..Len(m.vertexData) : a # b => m.vertexData[a] # m.vertexData[b]

C22_NoOpReportsSuccess ==
    (pc = "uniquified" /\ (oldMesh.nVertices = 0 \/ AllRecordsDistinct(oldMesh))) =>
        /\ mesh.vertexData = oldMesh.vertexData
        /\ mesh.nVertices = oldMesh.nVertices
        /\ mesh.groups = oldMesh.groups
        /\ ret = TRUE

(***************************************************************************)
(* C23.  uniquifyVertices compacts completely: after the call the vertex   *)
(* count is the number of classes of byte-identical records of the input,  *)
(* no two records of the output are byte-identical, and two old indices    *)
(* are mapped to the same new index exactly when their records were        *)
(* byte-identical.                                                         *)
(***************************************************************************)
\* The places of the indices of a mesh: <<group, position>>.
IndexPlaces(m) ==
    UNION { { <<g, k>> : k \in 1..Len(m.groups[g].indices) } :
            g \in 1..Len(m.groups) }

IndexIn(m, p) == m.groups[p[1]].indices[p[2]]

C23_CompactsCompletely ==
    pc = "uniquified" =>
        /\ mesh.nVertices = Cardinality({ oldMesh.vertexData[i] :
                                            i \in 1..Len(oldMesh.vertexData) })
        /\ Len(mesh.vertexData) = mesh.nVertices
        /\ AllRecordsDistinct(mesh)
        /\ Len(mesh.groups) = Len(oldMesh.groups)
        /\ \A g \in 1..Len(mesh.groups) :
              Len(mesh.groups[g].indices) = Len(oldMesh.groups[g].indices)
        /\ \A p, q \in IndexPlaces(oldMesh) :
              (IndexIn(mesh, p) = IndexIn(mesh, q))
                  <=> (oldMesh.vertexData[IndexIn(oldMesh, p) + 1]
                          = oldMesh.vertexData[IndexIn(oldMesh, q) + 1])

\* A call has merged two of three vertices, which differ from the third in
\* their last byte alone, and the groups use all three.
C23_Witness ==
    /\ pc = "uniquified"
    /\ oldMesh.nVertices = 3
    /\ mesh.nVertices = 2
    /\ \E a, b, c \in 1..3 :
          /\ oldMesh.vertexData[a] = oldMesh.vertexData[b] /\ a # b
          /\ oldMesh.vertexData[a][1] = oldMesh.vertexData[c][1]
          /\ oldMesh.vertexData[a][4] # oldMesh.vertexData[c][4]
          /\ \E p, q, r \in IndexPlaces(oldMesh) :
                /\ IndexIn(oldMesh, p) = a - 1
                /\ IndexIn(oldMesh, q) = b - 1
                /\ IndexIn(oldMesh, r) = c - 1
                /\ IndexIn(mesh, p) = IndexIn(mesh, q)
                /\ IndexIn(mesh, p) # IndexIn(mesh, r)

(***************************************************************************)
(* C24.  Weld assigns consistent point identities.  After joinVertices     *)
(* with the predicates of the normal pass (tolerance 0), two corners have  *)
(* the same vi exactly when the positions of their records are equal;      *)
(* every vi is the index of some corner with that position and is its own  *)
(* representative; i is left as it was; without welding vi = i.            *)
(***************************************************************************)

MergeMapLength == 3 * Len(faceArray)

C25_AccessesInBounds ==
    (pc \in {"normals", "tangents"} /\ IndicesValid(oldMesh)) =>
        /\ opts.weldVertices =>
              \A a \in Corners : /\ CornerI(a) < MergeMapLength
                                 /\ CornerVi(a) < MergeMapLength
        /\ \A a \in Corners : CornerVi(a) < oldMesh.nVertices

====
